---- MODULE Spec2Model ----
(***************************************************************************)
(* Model of the time handling of the two Stoltzen scrapers:                *)
(*   src/stoltzen_scraper.py            class StoltzenScraper              *)
(*   src/src/stoltzen_stat_scraper.py   class StoltzenStatScraper          *)
(*                                                                         *)
(* A Python str is a sequence of one-character strings, so that regular    *)
(* expression matching, stripping, splitting and int() are computed the    *)
(* way the interpreter computes them.  A Python value is a tagged record:  *)
(* None, a str, an int, a bool.                                            *)
(***************************************************************************)
EXTENDS Integers, Sequences, FiniteSets, TLC

(***************************************************************************)
(* Python values                                                           *)
(***************************************************************************)
NoneVal == [t |-> "None"]
StrVal(s) == [t |-> "str", v |-> s]
IntVal(n) == [t |-> "int", v |-> n]
BoolVal(b) == [t |-> "bool", v |-> b]
\* Marks a result slot no operation has written yet (not a Python value).
Unset == [t |-> "unset"]
\* Marks an exception that left a function (not a Python value).
Raised == [t |-> "raised"]

\* Python truthiness as used by "if not x": None, "" and 0 are falsy.
Falsy(x) ==
    \/ x = NoneVal
    \/ (x.t = "str" /\ x.v = <<>>)
    \/ (x.t = "int" /\ x.v = 0)
    \/ (x.t = "bool" /\ ~x.v)

(***************************************************************************)
(* Characters                                                              *)
(***************************************************************************)
Digits == <<"0", "1", "2", "3", "4", "5", "6", "7", "8", "9">>
IsDigit(c) == \E k \in 1..10 : Digits[k] = c
DigitValue(c) == (CHOOSE k \in 1..10 : Digits[k] = c) - 1
IsSep(c) == c \in {".", ":"}
IsSpace(c) == c = " "

At(s, i) == IF i >= 1 /\ i <= Len(s) THEN s[i] ELSE "$"
DigitAt(s, i) == IsDigit(At(s, i))
SepAt(s, i) == IsSep(At(s, i))
Slice(s, i, j) == IF j < i THEN <<>> ELSE SubSeq(s, i, j)

\* str.strip(): drop leading and trailing whitespace.
RECURSIVE LStrip(_)
LStrip(s) == IF s # <<>> /\ IsSpace(Head(s)) THEN LStrip(Tail(s)) ELSE s
RECURSIVE RStrip(_)
RStrip(s) ==
    IF s # <<>> /\ IsSpace(s[Len(s)]) THEN RStrip(SubSeq(s, 1, Len(s) - 1)) ELSE s
Strip(s) == RStrip(LStrip(s))

\* The value of a run of decimal digits.
RECURSIVE DigitsToInt(_)
DigitsToInt(ds) ==
    IF ds = <<>> THEN 0
    ELSE 10 * DigitsToInt(SubSeq(ds, 1, Len(ds) - 1)) + DigitValue(ds[Len(ds)])

AllDigits(s) == \A i \in 1..Len(s) : IsDigit(s[i])

\* int(str): surrounding whitespace is ignored, one sign is allowed, the rest
\* must be a non-empty run of digits; anything else raises ValueError.
PyInt(p) ==
    LET q == Strip(p)
        signed == q # <<>> /\ q[1] \in {"-", "+"}
        body == IF signed THEN Tail(q) ELSE q
    IN  IF body = <<>> \/ ~AllDigits(body) THEN Raised
        ELSE IntVal(IF signed /\ q[1] = "-" THEN 0 - DigitsToInt(body)
                                              ELSE DigitsToInt(body))

\* str(n) for n >= 0, and f"{n:02d}".
RECURSIVE IntToDigits(_)
IntToDigits(n) ==
    IF n < 10 THEN <<Digits[n + 1]>>
    ELSE IntToDigits(n \div 10) \o <<Digits[(n % 10) + 1]>>
TwoDigits(n) == IF n < 10 THEN <<"0">> \o IntToDigits(n) ELSE IntToDigits(n)

(***************************************************************************)
(* Regular expressions of parse_time, matched as re.search matches them:   *)
(* the leftmost start, and at a start the longest first group that lets    *)
(* the rest match.                                                         *)
(***************************************************************************)
NoMatch == [found |-> FALSE]

\* (\d{1,2})[.:](\d{2})[.:](\d{2}) at position i with a first group of la digits
Match3With(s, i, la) ==
    /\ \A k \in 0..(la - 1) : DigitAt(s, i + k)
    /\ SepAt(s, i + la)
    /\ DigitAt(s, i + la + 1) /\ DigitAt(s, i + la + 2)
    /\ SepAt(s, i + la + 3)
    /\ DigitAt(s, i + la + 4) /\ DigitAt(s, i + la + 5)

Groups3(s, i, la) ==
    [found |-> TRUE,
     g1 |-> Slice(s, i, i + la - 1),
     g2 |-> Slice(s, i + la + 1, i + la + 2),
     g3 |-> Slice(s, i + la + 4, i + la + 5)]

Match3At(s, i) ==
    IF Match3With(s, i, 2) THEN Groups3(s, i, 2)
    ELSE IF Match3With(s, i, 1) THEN Groups3(s, i, 1)
    ELSE NoMatch

Search3(s) ==
    LET starts == {i \in 1..Len(s) : Match3At(s, i).found}
    IN  IF starts = {} THEN NoMatch
        ELSE Match3At(s, CHOOSE i \in starts : \A j \in starts : i <= j)

\* (\d{1,3})[.:](\d{2}) at position i with a first group of la digits
Match2With(s, i, la) ==
    /\ \A k \in 0..(la - 1) : DigitAt(s, i + k)
    /\ SepAt(s, i + la)
    /\ DigitAt(s, i + la + 1) /\ DigitAt(s, i + la + 2)

Groups2(s, i, la) ==
    [found |-> TRUE,
     g1 |-> Slice(s, i, i + la - 1),
     g2 |-> Slice(s, i + la + 1, i + la + 2)]

Match2At(s, i) ==
    IF Match2With(s, i, 3) THEN Groups2(s, i, 3)
    ELSE IF Match2With(s, i, 2) THEN Groups2(s, i, 2)
    ELSE IF Match2With(s, i, 1) THEN Groups2(s, i, 1)
    ELSE NoMatch

Search2(s) ==
    LET starts == {i \in 1..Len(s) : Match2At(s, i).found}
    IN  IF starts = {} THEN NoMatch
        ELSE Match2At(s, CHOOSE i \in starts : \A j \in starts : i <= j)

Colon == <<":">>

(***************************************************************************)
(* StoltzenStatScraper.parse_time                                          *)
(***************************************************************************)
\* A plausible slip: the minutes:seconds:hundredths test left out, so that a
\* small first group is read as hours.
StatParse3_NoHundredthsBranch(first, second, third) ==
    LET first_num == DigitsToInt(first)
    IN  IF first_num > 23 THEN first \o Colon \o second
        ELSE IF first_num > 0 THEN first \o Colon \o second \o Colon \o third
        ELSE second \o Colon \o third

\* The body of "if match:" for the three-group pattern.
StatParse3(first, second, third) ==
    LET first_num == DigitsToInt(first)
    IN  IF first_num <= 60 /\ DigitsToInt(third) < 100
            THEN first \o Colon \o second
        ELSE IF first_num > 23
            THEN first \o Colon \o second
        ELSE IF first_num > 0
            THEN first \o Colon \o second \o Colon \o third
        ELSE second \o Colon \o third

\* A plausible slip: the two groups written in the wrong order.
Parse2_Swapped(minutes, seconds) == seconds \o Colon \o minutes

\* The body of "if match:" for the two-group pattern (the same in both classes).
Parse2(minutes, seconds) == minutes \o Colon \o seconds

\* A plausible slip: the unmatched text handed back as None.
Unmatched_None(time_str) == NoneVal

\* The final "return time_str" (the same in both classes).
Unmatched(time_str) == StrVal(time_str)

StoltzenStatScraper_parse_time(time_str) ==
    IF Falsy(time_str) THEN NoneVal
    ELSE LET s == Strip(time_str.v)
             m3 == Search3(s)
             m2 == Search2(s)
         IN  IF m3.found THEN StrVal(StatParse3(m3.g1, m3.g2, m3.g3))
             ELSE IF m2.found THEN StrVal(Parse2(m2.g1, m2.g2))
             ELSE Unmatched(s)

(***************************************************************************)
(* StoltzenScraper.parse_time                                              *)
(***************************************************************************)
ScraperParse3(hours, minutes, seconds) ==
    IF DigitsToInt(hours) > 23 THEN minutes \o Colon \o seconds
    ELSE IF DigitsToInt(hours) > 0
        THEN hours \o Colon \o minutes \o Colon \o seconds
    ELSE minutes \o Colon \o seconds

StoltzenScraper_parse_time(time_str) ==
    IF Falsy(time_str) THEN NoneVal
    ELSE LET s == Strip(time_str.v)
             m3 == Search3(s)
             m2 == Search2(s)
         IN  IF m3.found THEN StrVal(ScraperParse3(m3.g1, m3.g2, m3.g3))
             ELSE IF m2.found THEN StrVal(Parse2(m2.g1, m2.g2))
             ELSE Unmatched(s)

(***************************************************************************)
(* time_to_seconds                                                         *)
(***************************************************************************)
\* re.split(r'[.:]', s): the pieces between separators, empty ones kept.
RECURSIVE SplitSep(_)
SplitSep(s) ==
    LET seps == {i \in 1..Len(s) : IsSep(s[i])}
    IN  IF seps = {} THEN <<s>>
        ELSE LET i == CHOOSE k \in seps : \A j \in seps : k <= j
             IN  <<Slice(s, 1, i - 1)>> \o SplitSep(Slice(s, i + 1, Len(s)))

\* A plausible slip: the cut-off moved from "<= 60" to "< 60".
StatSeconds3_Below60(first, second, third) ==
    IF first < 60 /\ third < 100 THEN first * 60 + second
    ELSE first * 3600 + second * 60 + third

\* StoltzenStatScraper.time_to_seconds, the three-component branch.
StatSeconds3(first, second, third) ==
    IF first <= 60 /\ third < 100 THEN first * 60 + second
    ELSE first * 3600 + second * 60 + third

\* A plausible slip: the cut-off moved from "> 59" to "> 60".
ScraperSeconds3_Above60(first, second, third) ==
    IF first > 60 THEN first * 60 + second
    ELSE first * 3600 + second * 60 + third

\* A plausible slip: parse_time's cut-off "> 23" used here as well.
ScraperSeconds3_Above23(first, second, third) ==
    IF first > 23 THEN first * 60 + second
    ELSE first * 3600 + second * 60 + third

\* StoltzenScraper.time_to_seconds, the three-component branch.
ScraperSeconds3(first, second, third) ==
    IF first > 59 THEN first * 60 + second
    ELSE first * 3600 + second * 60 + third

\* map(int, parts), unpacked: every part is converted, any failure raises.
MapInt(parts) == [i \in 1..Len(parts) |-> PyInt(parts[i])]
AnyRaised(vals) == \E i \in 1..Len(vals) : vals[i] = Raised

\* The statements inside "try:" of StoltzenStatScraper.time_to_seconds.
StatSecondsBody(time_str) ==
    LET parts == SplitSep(Strip(time_str.v))
        n == MapInt(parts)
    IN  IF Len(parts) = 2 THEN
            IF AnyRaised(n) THEN Raised ELSE IntVal(n[1].v * 60 + n[2].v)
        ELSE IF Len(parts) = 3 THEN
            IF AnyRaised(n) THEN Raised
            ELSE IntVal(StatSeconds3(n[1].v, n[2].v, n[3].v))
        ELSE NoneVal

\* The statements inside "try:" of StoltzenScraper.time_to_seconds.
ScraperSecondsBody(time_str) ==
    LET parts == SplitSep(Strip(time_str.v))
        n == MapInt(parts)
    IN  IF Len(parts) = 2 THEN
            IF AnyRaised(n) THEN Raised ELSE IntVal(n[1].v * 60 + n[2].v)
        ELSE IF Len(parts) = 3 THEN
            IF n[1] = Raised THEN Raised
            ELSE IF AnyRaised(n) THEN Raised
            ELSE IntVal(ScraperSeconds3(n[1].v, n[2].v, n[3].v))
        ELSE NoneVal

\* A plausible slip: the handler left out, so the exception leaves the function.
ExceptReturnNone_Missing(r) == r

\* "except: return None" around the body.
ExceptReturnNone(r) == IF r = Raised THEN NoneVal ELSE r

StoltzenStatScraper_time_to_seconds(time_str) ==
    IF Falsy(time_str) THEN NoneVal
    ELSE ExceptReturnNone(StatSecondsBody(time_str))

StoltzenScraper_time_to_seconds(time_str) ==
    IF Falsy(time_str) THEN NoneVal
    ELSE ExceptReturnNone(ScraperSecondsBody(time_str))

(***************************************************************************)
(* is_new_best_time and calculate_time_difference.  The two classes hold   *)
(* the same text; each calls the time_to_seconds of its own class, cls.    *)
(* Beside the returned value the result records the two locals and whether *)
(* the conversions were reached.                                           *)
(***************************************************************************)
CurrentYear == 2024

\* parse_time of the scraper cls
parse_time(cls, time_str) ==
    IF cls = "stat" THEN StoltzenStatScraper_parse_time(time_str)
    ELSE StoltzenScraper_parse_time(time_str)

\* self.time_to_seconds of class cls
time_to_seconds(cls, time_str) ==
    IF cls = "stat" THEN StoltzenStatScraper_time_to_seconds(time_str)
    ELSE StoltzenScraper_time_to_seconds(time_str)

Outcome(ret, converted, cs, ps) ==
    [ret |-> ret, converted |-> converted,
     current_seconds |-> cs, previous_seconds |-> ps]

\* A plausible slip: a time equal to the earlier best counts as a new best
\* (<= where the code has <).
is_new_best_time_OrEqual(cls, current, previous, year) ==
    IF Falsy(current) THEN Outcome(BoolVal(FALSE), FALSE, Unset, Unset)
    ELSE IF Falsy(previous) \/ year = NoneVal
        THEN Outcome(BoolVal(TRUE), FALSE, Unset, Unset)
    ELSE IF year.v >= CurrentYear
        THEN Outcome(BoolVal(FALSE), FALSE, Unset, Unset)
    ELSE LET cs == time_to_seconds(cls, current)
             ps == time_to_seconds(cls, previous)
         IN  IF cs = Raised \/ ps = Raised
                 THEN Outcome(BoolVal(FALSE), TRUE, cs, ps)
             ELSE IF cs = NoneVal \/ ps = NoneVal
                 THEN Outcome(BoolVal(FALSE), TRUE, cs, ps)
             ELSE Outcome(BoolVal(cs.v <= ps.v), TRUE, cs, ps)

\* A plausible slip: a best of the evaluation year itself still counts as
\* earlier (> where the code has >=).
is_new_best_time_YearAfter(cls, current, previous, year) ==
    IF Falsy(current) THEN Outcome(BoolVal(FALSE), FALSE, Unset, Unset)
    ELSE IF Falsy(previous) \/ year = NoneVal
        THEN Outcome(BoolVal(TRUE), FALSE, Unset, Unset)
    ELSE IF year.v > CurrentYear
        THEN Outcome(BoolVal(FALSE), FALSE, Unset, Unset)
    ELSE LET cs == time_to_seconds(cls, current)
             ps == time_to_seconds(cls, previous)
         IN  IF cs = Raised \/ ps = Raised
                 THEN Outcome(BoolVal(FALSE), TRUE, cs, ps)
             ELSE IF cs = NoneVal \/ ps = NoneVal
                 THEN Outcome(BoolVal(FALSE), TRUE, cs, ps)
             ELSE Outcome(BoolVal(cs.v < ps.v), TRUE, cs, ps)

is_new_best_time(cls, current, previous, year) ==
    IF Falsy(current) THEN Outcome(BoolVal(FALSE), FALSE, Unset, Unset)
    ELSE IF Falsy(previous) \/ year = NoneVal
        THEN Outcome(BoolVal(TRUE), FALSE, Unset, Unset)
    ELSE IF year.v >= CurrentYear
        THEN Outcome(BoolVal(FALSE), FALSE, Unset, Unset)
    ELSE LET cs == time_to_seconds(cls, current)
             ps == time_to_seconds(cls, previous)
         IN  IF cs = Raised \/ ps = Raised       \* except: return False
                 THEN Outcome(BoolVal(FALSE), TRUE, cs, ps)
             ELSE IF cs = NoneVal \/ ps = NoneVal
                 THEN Outcome(BoolVal(FALSE), TRUE, cs, ps)
             ELSE Outcome(BoolVal(cs.v < ps.v), TRUE, cs, ps)

Abs(n) == IF n < 0 THEN 0 - n ELSE n

\* A plausible slip: abs() forgotten, the minutes and seconds taken from the
\* signed difference (Python's // and % round towards minus infinity).
FormatDifference_NoAbs(diff_seconds) ==
    LET minutes == Abs(diff_seconds \div 60)
        seconds == diff_seconds % 60
        sign == IF diff_seconds < 0 THEN "-" ELSE "+"
    IN  <<sign>> \o IntToDigits(minutes) \o Colon \o TwoDigits(seconds)

\* A plausible slip: the seconds are written without the :02d padding.
FormatDifference_Unpadded(diff_seconds) ==
    LET abs_diff == Abs(diff_seconds)
        minutes == abs_diff \div 60
        seconds == abs_diff % 60
        sign == IF diff_seconds < 0 THEN "-" ELSE "+"
    IN  <<sign>> \o IntToDigits(minutes) \o Colon \o IntToDigits(seconds)

\* The text built from a non-zero difference in seconds.
FormatDifference(diff_seconds) ==
    LET abs_diff == Abs(diff_seconds)
        minutes == abs_diff \div 60
        seconds == abs_diff % 60
        sign == IF diff_seconds < 0 THEN "-" ELSE "+"
    IN  <<sign>> \o IntToDigits(minutes) \o Colon \o TwoDigits(seconds)

calculate_time_difference(cls, current, previous) ==
    IF Falsy(current) \/ Falsy(previous)
        THEN Outcome(NoneVal, FALSE, Unset, Unset)
    ELSE LET cs == time_to_seconds(cls, current)
             ps == time_to_seconds(cls, previous)
         IN  IF cs = Raised \/ ps = Raised       \* except: return None
                 THEN Outcome(NoneVal, TRUE, cs, ps)
             ELSE IF cs = NoneVal \/ ps = NoneVal
                 THEN Outcome(NoneVal, TRUE, cs, ps)
             ELSE IF cs.v - ps.v = 0
                 THEN Outcome(StrVal(<<"0", ":", "0", "0">>), TRUE, cs, ps)
             ELSE Outcome(StrVal(FormatDifference(cs.v - ps.v)), TRUE, cs, ps)

(***************************************************************************)
(* Classification by class label                                           *)
(***************************************************************************)
UpperCase ==
    <<"A", "B", "C", "D", "E", "F", "G", "H", "I", "J", "K", "L", "M", "N",
      "O", "P", "Q", "R", "S", "T", "U", "V", "W", "X", "Y", "Z">>
LowerCase ==
    <<"a", "b", "c", "d", "e", "f", "g", "h", "i", "j", "k", "l", "m", "n",
      "o", "p", "q", "r", "s", "t", "u", "v", "w", "x", "y", "z">>

\* str.lower()
LowerChar(c) ==
    IF \E i \in 1..Len(UpperCase) : UpperCase[i] = c
    THEN LowerCase[CHOOSE i \in 1..Len(UpperCase) : UpperCase[i] = c]
    ELSE c
Lower(s) == [i \in 1..Len(s) |-> LowerChar(s[i])]

\* sub in s
In(sub, s) ==
    \E i \in 1..(Len(s) - Len(sub) + 1) : SubSeq(s, i, i + Len(sub) - 1) = sub

kvinner == <<"k", "v", "i", "n", "n", "e", "r">>
kvinne == <<"k", "v", "i", "n", "n", "e">>
dame == <<"d", "a", "m", "e">>
pluss_90kg == <<"p", "l", "u", "s", "s", " ", "9", "0", "k", "g">>
pluss90kg == <<"p", "l", "u", "s", "s", "9", "0", "k", "g">>
pluss == <<"p", "l", "u", "s", "s">>
menn == <<"m", "e", "n", "n">>
mann == <<"m", "a", "n", "n">>
herrer == <<"h", "e", "r", "r", "e", "r">>
herre == <<"h", "e", "r", "r", "e">>

\* The three groups.
Dame == StrVal(<<"D", "a", "m", "e">>)
Mann == StrVal(<<"M", "a", "n", "n">>)
Pluss == StrVal(<<"P", "l", "u", "s", "s">>)

\* A plausible slip: no group when there is no class text.
determine_group_from_class_NoDefault(class_text) ==
    IF Falsy(class_text) THEN NoneVal
    ELSE LET class_lower == Lower(class_text.v)
         IN  IF In(kvinner, class_lower) \/ In(kvinne, class_lower)
                \/ In(dame, class_lower)
                 THEN Dame
             ELSE IF In(pluss_90kg, class_lower) \/ In(pluss90kg, class_lower)
                     \/ In(pluss, class_lower)
                 THEN Pluss
             ELSE IF In(menn, class_lower) \/ In(mann, class_lower)
                     \/ In(herrer, class_lower) \/ In(herre, class_lower)
                 THEN Mann
             ELSE Mann

\* StoltzenStatScraper.determine_group_from_class
determine_group_from_class(class_text) ==
    IF Falsy(class_text) THEN Mann
    ELSE LET class_lower == Lower(class_text.v)
         IN  IF In(kvinner, class_lower) \/ In(kvinne, class_lower)
                \/ In(dame, class_lower)
                 THEN Dame
             ELSE IF In(pluss_90kg, class_lower) \/ In(pluss90kg, class_lower)
                     \/ In(pluss, class_lower)
                 THEN Pluss
             ELSE IF In(menn, class_lower) \/ In(mann, class_lower)
                     \/ In(herrer, class_lower) \/ In(herre, class_lower)
                 THEN Mann
             ELSE Mann

\* StoltzenScraper.parse_results_table, "Determine category based on category
\* text": cell is the text of the fourth cell of the row, None when the row
\* has three cells.
current_category(cell) ==
    LET full_class == IF cell = NoneVal THEN <<>> ELSE Strip(cell.v)
        category_text == Lower(full_class)
    IN  IF In(kvinner, category_text) THEN Dame
        ELSE IF In(pluss_90kg, category_text) \/ In(pluss90kg, category_text)
            THEN Pluss
        ELSE IF In(menn, category_text) \/ In(herrer, category_text)
            THEN Mann
        ELSE Mann

\* get_sort_key of the stat scraper: group_priority.get(participant.get('Gruppe'), 4)
GroupOrder(Gruppe) ==
    CASE Gruppe = Dame -> IntVal(1)
      [] Gruppe = Mann -> IntVal(2)
      [] Gruppe = Pluss -> IntVal(3)
      [] OTHER -> IntVal(4)

(***************************************************************************)
(* State                                                                   *)
(***************************************************************************)
VARIABLES
    time_str,       \* the argument handed to parse_time / time_to_seconds
    statCanon,      \* StoltzenStatScraper.parse_time(time_str)
    scrCanon,       \* StoltzenScraper.parse_time(time_str)
    statCanon2,     \* StoltzenStatScraper.parse_time(statCanon)
    scrCanon2,      \* StoltzenScraper.parse_time(scrCanon)
    statSecs,       \* StoltzenStatScraper.time_to_seconds(time_str)
    scrSecs,        \* StoltzenScraper.time_to_seconds(time_str)
    current_time,   \* this year's time of a participant
    best_previous,  \* the best earlier time found for the participant
    best_year,      \* the year of best_previous
    call,           \* the last call made on them: function, result, locals
    page,           \* the profile page parse_participant_profile fetched
    scan,           \* its position in the function and its local variables
    participant,    \* the record it returned (None when it returned none)
    class_text,     \* a class label: the text of a class cell, None without one
    statGruppe,     \* StoltzenStatScraper.determine_group_from_class(class_text)
    scrCategory,    \* current_category of StoltzenScraper.parse_results_table
    group_order,    \* group_order of get_sort_key for a record of statGruppe
    results_table,  \* main: the rows of the results table / the pages of the URLs
    futures,        \* main: the state and the result of each submitted task
    collected,      \* main: the records appended so far, in order of arrival
    main_pc         \* main: its position

parseVars == <<statCanon, scrCanon, statCanon2, scrCanon2>>
secondsVars == <<statSecs, scrSecs>>
compareVars == <<current_time, best_previous, best_year, call>>
profileVars == <<page, scan, participant>>
classVars == <<class_text, statGruppe, scrCategory, group_order>>
mainVars == <<results_table, futures, collected, main_pc>>

vars == <<time_str, parseVars, secondsVars, compareVars, profileVars,
          classVars, mainVars>>

\* No call made yet.
NoCall ==
    [fn |-> "none", ret |-> Unset, converted |-> FALSE,
     current_seconds |-> Unset, previous_seconds |-> Unset]

ParseIdle ==
    /\ statCanon = Unset /\ scrCanon = Unset
    /\ statCanon2 = Unset /\ scrCanon2 = Unset
SecondsIdle == statSecs = Unset /\ scrSecs = Unset
CompareIdle ==
    /\ current_time = NoneVal /\ best_previous = NoneVal
    /\ best_year = NoneVal /\ call = NoCall
ProfileIdle == page = NoneVal /\ scan = NoneVal /\ participant = Unset
ClassIdle ==
    /\ class_text = NoneVal /\ statGruppe = Unset
    /\ scrCategory = Unset /\ group_order = Unset
MainIdle ==
    /\ results_table = <<>> /\ futures = <<>>
    /\ collected = <<>> /\ main_pc = "idle"

(***************************************************************************)
(* Inputs                                                                  *)
(***************************************************************************)
\* Largest first group of a generated token, beside the fixed 99 and 123.
MaxFirst == 61
\* Widest zero padding of a generated first group.
MaxWidth == 3

RECURSIVE Zeros(_)
Zeros(n) == IF n <= 0 THEN <<>> ELSE <<"0">> \o Zeros(n - 1)
Pad(a, w) == LET d == IntToDigits(a) IN Zeros(w - Len(d)) \o d

FirstValues == (0..MaxFirst) \cup {99, 123}
FirstTexts == {Pad(a, w) : a \in FirstValues, w \in 1..MaxWidth}
SecondTexts == {<<"5", "4">>, <<"2", "3">>}
TailTexts ==
    {<<>>, <<".", "2", "3">>, <<".", "4", "5">>, <<":", "0", "0">>}
Affixes == {<< <<>>, <<>> >>, << <<" ">>, <<" ", " ">> >>, << <<"x">>, <<>> >>}

TokenTexts ==
    {x[1] \o a \o <<s1>> \o b \o c \o x[2] :
        a \in FirstTexts, s1 \in {".", ":"}, b \in SecondTexts,
        c \in TailTexts, x \in Affixes}

JunkTexts ==
    {<<>>, <<" ">>, <<"x">>, <<" ", "x", " ">>, <<"7">>, <<"7", ".", "5">>,
     <<"D", "N", "F">>, <<" ", "7", ":", "5", "x">>, <<".", ".">>,
     <<"1", "2", " ">>}

ParseInputs == {NoneVal} \cup {StrVal(s) : s \in TokenTexts \cup JunkTexts}

(***************************************************************************)
(* parse_time applied to a raw token, and again to its own result          *)
(***************************************************************************)
InitParse ==
    /\ time_str \in ParseInputs
    /\ ParseIdle /\ SecondsIdle /\ CompareIdle /\ ProfileIdle /\ ClassIdle /\ MainIdle

StatParseTime ==
    /\ statCanon = Unset
    /\ statCanon' = StoltzenStatScraper_parse_time(time_str)
    /\ UNCHANGED <<time_str, scrCanon, statCanon2, scrCanon2, secondsVars, compareVars, profileVars, classVars, mainVars>>

ScraperParseTime ==
    /\ scrCanon = Unset
    /\ scrCanon' = StoltzenScraper_parse_time(time_str)
    /\ UNCHANGED <<time_str, statCanon, statCanon2, scrCanon2, secondsVars, compareVars, profileVars, classVars, mainVars>>

StatParseTimeAgain ==
    /\ statCanon # Unset /\ statCanon2 = Unset
    /\ statCanon2' = StoltzenStatScraper_parse_time(statCanon)
    /\ UNCHANGED <<time_str, statCanon, scrCanon, scrCanon2, secondsVars, compareVars, profileVars, classVars, mainVars>>

ScraperParseTimeAgain ==
    /\ scrCanon # Unset /\ scrCanon2 = Unset
    /\ scrCanon2' = StoltzenScraper_parse_time(scrCanon)
    /\ UNCHANGED <<time_str, statCanon, scrCanon, statCanon2, secondsVars, compareVars, profileVars, classVars, mainVars>>

NextParse ==
    \/ StatParseTime
    \/ ScraperParseTime
    \/ StatParseTimeAgain
    \/ ScraperParseTimeAgain

SpecParse == InitParse /\ [][NextParse]_vars

(***************************************************************************)
(* Vocabulary of the statements about parse_time                           *)
(***************************************************************************)
IsStr(x) == x.t = "str"

\* s is exactly A<sep>B<sep>C with A of la digits and B, C of two digits.
IsToken3(s, la) ==
    /\ Len(s) = la + 6
    /\ \A k \in 1..la : IsDigit(s[k])
    /\ IsSep(s[la + 1]) /\ IsDigit(s[la + 2]) /\ IsDigit(s[la + 3])
    /\ IsSep(s[la + 4]) /\ IsDigit(s[la + 5]) /\ IsDigit(s[la + 6])
TokenA(s, la) == SubSeq(s, 1, la)
TokenB(s, la) == SubSeq(s, la + 2, la + 3)
TokenC(s, la) == SubSeq(s, la + 5, la + 6)
Unpadded(ds) == IntToDigits(DigitsToInt(ds))

\* The text between the first and the last character that is not a space.
Core(s) ==
    LET solid == {i \in 1..Len(s) : s[i] # " "}
    IN  IF solid = {} THEN <<>>
        ELSE SubSeq(s, CHOOSE i \in solid : \A j \in solid : i <= j,
                       CHOOSE i \in solid : \A j \in solid : i >= j)

\* Some digit is followed by a separator and two digits: the two-group form
\* occurs in s (and the three-group form can occur only where it does).
HasTimeShape(s) ==
    \E i \in 1..Len(s) :
        /\ IsDigit(s[i]) /\ i + 3 <= Len(s)
        /\ IsSep(s[i + 1]) /\ IsDigit(s[i + 2]) /\ IsDigit(s[i + 3])

\* x is a str of the form M:SS, M one or more digits.
IsCanon2(x) ==
    /\ IsStr(x)
    /\ Len(x.v) >= 4
    /\ x.v[Len(x.v) - 2] = ":"
    /\ \A i \in 1..Len(x.v) : i # Len(x.v) - 2 => IsDigit(x.v[i])

Text_1_23_45 == <<"1", ".", "2", "3", ".", "4", "5">>

(***************************************************************************)
(* C1..C5: parse_time                                                      *)
(***************************************************************************)
\* C1 (as stated): StoltzenStatScraper.parse_time turns every three-group token
\* whose first group A (one or two digits) is at most 60 into A:B with the
\* third group dropped and A written without zero padding.
C1_UnpaddedMinutesSeconds ==
    \A la \in 1..2 :
        (/\ statCanon # Unset /\ IsStr(time_str) /\ IsToken3(time_str.v, la)
         /\ DigitsToInt(TokenA(time_str.v, la)) <= 60)
        => statCanon = StrVal(Unpadded(TokenA(time_str.v, la)) \o Colon
                              \o TokenB(time_str.v, la))

\* C2 (as stated): StoltzenStatScraper.parse_time keeps all three groups,
\* A:B:C, of every three-group token whose first group is in 1..23.
C2_HoursKept ==
    \A la \in 1..2 :
        (/\ statCanon # Unset /\ IsStr(time_str) /\ IsToken3(time_str.v, la)
         /\ DigitsToInt(TokenA(time_str.v, la)) \in 1..23)
        => statCanon \in
              {StrVal(a \o Colon \o TokenB(time_str.v, la) \o Colon
                      \o TokenC(time_str.v, la)) :
                  a \in {TokenA(time_str.v, la), Unpadded(TokenA(time_str.v, la))}}

\* C2 (amended): for every three-group token whose first group (one or two
\* digits) is in 1..23, StoltzenStatScraper.parse_time never takes the hours
\* branch: the result is the two-group text first:second, the first group as
\* written and the third group dropped.
C2_HoursDropped ==
    \A la \in 1..2 :
        (/\ statCanon # Unset /\ IsStr(time_str) /\ IsToken3(time_str.v, la)
         /\ DigitsToInt(TokenA(time_str.v, la)) \in 1..23)
        => statCanon = StrVal(TokenA(time_str.v, la) \o Colon
                              \o TokenB(time_str.v, la))

C2_Witness ==
    /\ time_str = StrVal(Text_1_23_45)
    /\ statCanon = StrVal(<<"1", ":", "2", "3">>)

\* C3 (as stated): StoltzenScraper.parse_time turns every three-group token
\* whose (two-digit) first group A is greater than 23 into A:B, the third
\* group dropped.
C3_MinutesSecondsAbove23 ==
    (/\ scrCanon # Unset /\ IsStr(time_str) /\ IsToken3(time_str.v, 2)
     /\ DigitsToInt(TokenA(time_str.v, 2)) > 23)
    => scrCanon = StrVal(TokenA(time_str.v, 2) \o Colon \o TokenB(time_str.v, 2))

\* C4: in both scrapers parse_time returns None exactly for a None or empty
\* argument, and a non-empty argument in whose trimmed text neither pattern
\* occurs comes back as that trimmed text.
C4_For(canon) ==
    canon # Unset =>
        /\ (canon = NoneVal) <=> (time_str = NoneVal \/ time_str = StrVal(<<>>))
        /\ (IsStr(time_str) /\ time_str.v # <<>> /\ ~HasTimeShape(Core(time_str.v)))
            => canon = StrVal(Core(time_str.v))

C4_PassThrough == C4_For(statCanon) /\ C4_For(scrCanon)

C4_Witness ==
    /\ IsStr(time_str) /\ Core(time_str.v) # time_str.v
    /\ Core(time_str.v) # <<>> /\ ~HasTimeShape(Core(time_str.v))
    /\ statCanon = StrVal(Core(time_str.v))
    /\ scrCanon = StrVal(Core(time_str.v))

\* C5: in both scrapers, when parse_time's result has the two-group form
\* M:SS, parsing that result again gives the same text.
C5_Idempotent ==
    /\ (statCanon2 # Unset /\ IsCanon2(statCanon)) => statCanon2 = statCanon
    /\ (scrCanon2 # Unset /\ IsCanon2(scrCanon)) => scrCanon2 = scrCanon

C5_Witness ==
    /\ IsCanon2(statCanon) /\ statCanon # time_str /\ statCanon2 = statCanon
    /\ IsCanon2(scrCanon) /\ scrCanon # time_str /\ scrCanon2 = scrCanon

(***************************************************************************)
(* time_to_seconds of both classes applied to one text                     *)
(***************************************************************************)
ThirdTexts ==
    {<<>>, <<":", "4", "5">>, <<":", "0", "0">>, <<":", "9", "9">>,
     <<":", "1", "0", "0">>, <<".", "2", "3">>}

SecondsTexts ==
    {a \o Colon \o b \o c :
        a \in FirstTexts, b \in SecondTexts \cup {<<"0", "0">>}, c \in ThirdTexts}

MalformedTexts ==
    {<<>>, <<" ">>, <<"7">>, <<"7", ":">>, <<":", "5", "4">>,
     <<"7", ":", "5", "x">>, <<"x", ":", "5", "4">>, <<"D", "N", "F">>,
     <<"1", ":", "2", ":", "3", ":", "4">>, <<"7", ":", ":", "5", "4">>,
     <<"7", ":", "5", "4", ":">>, <<"7", ":", "5", " ", "4">>}

\* Texts int() still accepts: padded with spaces, or signed.
LenientTexts ==
    {<<" ", "7", ":", "5", "4", " ">>, <<"7", " ", ":", " ", "5", "4">>,
     <<"-", "1", ":", "3", "0">>, <<"+", "7", ":", "5", "4">>}

SecondsInputs ==
    {NoneVal} \cup
    {StrVal(s) : s \in SecondsTexts \cup MalformedTexts \cup LenientTexts}

InitSeconds ==
    /\ time_str \in SecondsInputs
    /\ ParseIdle /\ SecondsIdle /\ CompareIdle /\ ProfileIdle /\ ClassIdle /\ MainIdle

StatTimeToSeconds ==
    /\ statSecs = Unset
    /\ statSecs' = StoltzenStatScraper_time_to_seconds(time_str)
    /\ UNCHANGED <<time_str, parseVars, scrSecs, compareVars, profileVars, classVars, mainVars>>

ScraperTimeToSeconds ==
    /\ scrSecs = Unset
    /\ scrSecs' = StoltzenScraper_time_to_seconds(time_str)
    /\ UNCHANGED <<time_str, parseVars, statSecs, compareVars, profileVars, classVars, mainVars>>

NextSeconds ==
    \/ StatTimeToSeconds
    \/ ScraperTimeToSeconds

SpecSeconds == InitSeconds /\ [][NextSeconds]_vars

(***************************************************************************)
(* Vocabulary of the statements about time_to_seconds                      *)
(***************************************************************************)
\* The components of a text: the runs between its separators.
Components(x) == SplitSep(Core(x.v))
IsNumber(p) == p # <<>> /\ AllDigits(p)
\* x is a str of n components, each a run of digits.
NumericComponents(x, n) ==
    /\ IsStr(x)
    /\ Len(Components(x)) = n
    /\ \A i \in 1..n : IsNumber(Components(x)[i])
Component(x, i) == DigitsToInt(Components(x)[i])

Text_1c23c45 == <<"1", ":", "2", "3", ":", "4", "5">>
Text_60c23c45 == <<"6", "0", ":", "2", "3", ":", "4", "5">>

(***************************************************************************)
(* C6, C7: time_to_seconds                                                 *)
(***************************************************************************)
\* C6 (as stated): StoltzenStatScraper.time_to_seconds gives minutes*60+seconds
\* for two numeric components, and for three numeric components
\* hours*3600+minutes*60+seconds when the first is at most 59 and
\* first*60+second when the first is greater than 59.
C6_Threshold59 ==
    statSecs # Unset =>
        /\ NumericComponents(time_str, 2) =>
              statSecs = IntVal(Component(time_str, 1) * 60 + Component(time_str, 2))
        /\ NumericComponents(time_str, 3) =>
              statSecs = IntVal(IF Component(time_str, 1) <= 59
                                THEN Component(time_str, 1) * 3600
                                     + Component(time_str, 2) * 60
                                     + Component(time_str, 3)
                                ELSE Component(time_str, 1) * 60
                                     + Component(time_str, 2))

\* C6 (amended): StoltzenStatScraper.time_to_seconds gives minutes*60+seconds
\* for two numeric components, and for three numeric components
\* first*60+second (third dropped) when the first is at most 60 and the third
\* is below 100, and first*3600+second*60+third otherwise.
C6_Threshold60 ==
    statSecs # Unset =>
        /\ NumericComponents(time_str, 2) =>
              statSecs = IntVal(Component(time_str, 1) * 60 + Component(time_str, 2))
        /\ NumericComponents(time_str, 3) =>
              statSecs = IntVal(IF Component(time_str, 1) <= 60
                                   /\ Component(time_str, 3) < 100
                                THEN Component(time_str, 1) * 60
                                     + Component(time_str, 2)
                                ELSE Component(time_str, 1) * 3600
                                     + Component(time_str, 2) * 60
                                     + Component(time_str, 3))

C6_Witness == time_str = StrVal(Text_1c23c45) /\ statSecs = IntVal(83)

\* C7 (as stated): on a text of three numeric components the two
\* time_to_seconds differ when the first component is 60 and agree when it is
\* not.
C7_DifferOnlyAt60 ==
    (statSecs # Unset /\ scrSecs # Unset /\ NumericComponents(time_str, 3)) =>
        (statSecs # scrSecs) <=> (Component(time_str, 1) = 60)

\* C7 (amended): on a text of three numeric components with the third below
\* 100 the two time_to_seconds agree when the first component is 60 (both
\* give first*60+second) and differ for every other first component, the
\* all-zero text 0:00:00 apart; with a third component of 100 or more they
\* agree exactly when the first component is at most 59.
C7_AgreeAt60 ==
    (statSecs # Unset /\ scrSecs # Unset /\ NumericComponents(time_str, 3)) =>
        LET first == Component(time_str, 1)
            second == Component(time_str, 2)
            third == Component(time_str, 3)
        IN  IF third < 100
            THEN /\ first = 60 =>
                       statSecs = scrSecs /\ statSecs = IntVal(first * 60 + second)
                 /\ first # 60 =>
                       ((statSecs = scrSecs)
                            <=> (first = 0 /\ second = 0 /\ third = 0))
            ELSE (statSecs = scrSecs) <=> (first <= 59)

C7_Witness ==
    /\ time_str = StrVal(Text_60c23c45)
    /\ statSecs = IntVal(3623) /\ scrSecs = IntVal(3623)

(***************************************************************************)
(* time_to_seconds, is_new_best_time and calculate_time_difference of both *)
(* classes, called on a current time, a best earlier time and its year     *)
(***************************************************************************)
\* Largest minutes value of a generated M:SS text.
MaxMinutes == 61
\* Largest hours value of a generated H:MM:SS text.
MaxHours == 60

MinuteValues == {0, 7, 9, 10} \cup (59..MaxMinutes)
HourValues == {1, 23} \cup (59..MaxHours)
FieldTexts == {<<"0", "0">>, <<"5", "9">>}

CanonicalTexts ==
    {IntToDigits(m) \o Colon \o ss : m \in MinuteValues, ss \in FieldTexts}
    \cup {IntToDigits(h) \o Colon \o mm \o Colon \o ss :
            h \in HourValues, mm \in FieldTexts, ss \in FieldTexts}

OddTexts ==
    {<<>>, <<"D", "N", "F">>, <<"7">>, <<"7", ":", "5", "x">>,
     <<"1", ":", "2", ":", "3", ":", "4">>, <<":", "5", "9">>,
     <<" ", "7", ":", "5", "9", " ">>, <<"-", "1", ":", "3", "0">>}

\* The times of the examples: 7:54 against 7:40, 7:30 against 8:11.
ExampleTexts ==
    {<<"7", ":", "5", "4">>, <<"7", ":", "4", "0">>,
     <<"7", ":", "3", "0">>, <<"8", ":", "1", "1">>}

CompareInputs ==
    {NoneVal} \cup {StrVal(s) : s \in CanonicalTexts \cup ExampleTexts \cup OddTexts}
YearInputs == {NoneVal, IntVal(2016), IntVal(CurrentYear), IntVal(CurrentYear + 1)}

InitCompare ==
    /\ time_str = NoneVal
    /\ ParseIdle /\ SecondsIdle /\ ProfileIdle /\ ClassIdle /\ MainIdle
    /\ current_time \in CompareInputs
    /\ best_previous \in CompareInputs
    /\ best_year \in YearInputs
    /\ call = NoCall

Called(fn, o) ==
    [fn |-> fn, ret |-> o.ret, converted |-> o.converted,
     current_seconds |-> o.current_seconds,
     previous_seconds |-> o.previous_seconds]

Keep == UNCHANGED <<time_str, parseVars, secondsVars, profileVars,
                    classVars, mainVars,
                    current_time, best_previous, best_year>>

StatCallTimeToSeconds ==
    /\ call' = Called("stat.time_to_seconds",
                      Outcome(StoltzenStatScraper_time_to_seconds(current_time),
                              FALSE, Unset, Unset))
    /\ Keep

ScraperCallTimeToSeconds ==
    /\ call' = Called("scraper.time_to_seconds",
                      Outcome(StoltzenScraper_time_to_seconds(current_time),
                              FALSE, Unset, Unset))
    /\ Keep

StatIsNewBestTime ==
    /\ call' = Called("stat.is_new_best_time",
                      is_new_best_time("stat",
                                       current_time, best_previous, best_year))
    /\ Keep

ScraperIsNewBestTime ==
    /\ call' = Called("scraper.is_new_best_time",
                      is_new_best_time("scraper",
                                       current_time, best_previous, best_year))
    /\ Keep

StatCalculateTimeDifference ==
    /\ call' = Called("stat.calculate_time_difference",
                      calculate_time_difference("stat",
                                                current_time, best_previous))
    /\ Keep

ScraperCalculateTimeDifference ==
    /\ call' = Called("scraper.calculate_time_difference",
                      calculate_time_difference("scraper",
                                                current_time, best_previous))
    /\ Keep

NextCompare ==
    \/ StatCallTimeToSeconds
    \/ ScraperCallTimeToSeconds
    \/ StatIsNewBestTime
    \/ ScraperIsNewBestTime
    \/ StatCalculateTimeDifference
    \/ ScraperCalculateTimeDifference

SpecCompare == InitCompare /\ [][NextCompare]_vars

(***************************************************************************)
(* Vocabulary of the statements about comparison                           *)
(***************************************************************************)
IsField(p) == Len(p) = 2 /\ AllDigits(p) /\ DigitsToInt(p) <= 59
IsLeading(p) == IsNumber(p) /\ p = Unpadded(p)
OnlyColons(x) == \A i \in 1..Len(x.v) : x.v[i] # "."

\* M:SS
IsMinutesSeconds(x) ==
    /\ NumericComponents(x, 2) /\ OnlyColons(x) /\ Core(x.v) = x.v
    /\ IsLeading(Components(x)[1]) /\ IsField(Components(x)[2])

\* H:MM:SS with H between 1 and maxH
IsHoursMinutesSeconds(x, maxH) ==
    /\ NumericComponents(x, 3) /\ OnlyColons(x) /\ Core(x.v) = x.v
    /\ IsLeading(Components(x)[1]) /\ Component(x, 1) \in 1..maxH
    /\ IsField(Components(x)[2]) /\ IsField(Components(x)[3])

\* The duration a canonical time denotes.
TrueDuration(x) ==
    IF Len(Components(x)) = 2
    THEN Component(x, 1) * 60 + Component(x, 2)
    ELSE Component(x, 1) * 3600 + Component(x, 2) * 60 + Component(x, 3)

ScraperConverted ==
    /\ call.fn \in {"scraper.is_new_best_time", "scraper.calculate_time_difference"}
    /\ call.converted

\* With both times canonical (hours up to maxH), the two converted values are
\* non-negative integers ordered as the durations are.
OrderedAsDurations(maxH) ==
    (/\ ScraperConverted
     /\ IsMinutesSeconds(current_time) \/ IsHoursMinutesSeconds(current_time, maxH)
     /\ IsMinutesSeconds(best_previous) \/ IsHoursMinutesSeconds(best_previous, maxH))
    => /\ call.current_seconds.t = "int" /\ call.current_seconds.v >= 0
       /\ call.previous_seconds.t = "int" /\ call.previous_seconds.v >= 0
       /\ TrueDuration(current_time) < TrueDuration(best_previous)
            => call.current_seconds.v < call.previous_seconds.v

\* A component int() accepts: spaces around, one optional sign, digits.
IsPyNumber(p) ==
    LET q == Core(p)
        d == IF q # <<>> /\ q[1] \in {"+", "-"} THEN SubSeq(q, 2, Len(q)) ELSE q
    IN  IsNumber(d)

\* x is None, empty, or has a component count other than 2 or 3, or has a
\* component that is no number.
Malformed(x) ==
    \/ x = NoneVal
    \/ /\ IsStr(x)
       /\ \/ x.v = <<>>
          \/ Len(Components(x)) \notin {2, 3}
          \/ \E i \in 1..Len(Components(x)) : ~IsPyNumber(Components(x)[i])

(***************************************************************************)
(* C8, C9                                                                  *)
(***************************************************************************)
\* C8 (as stated): for canonical times M:SS and H:MM:SS with any H >= 1,
\* StoltzenScraper.time_to_seconds gives non-negative integers, and a shorter
\* duration gives a smaller value.
C8_MonotoneAnyHours == OrderedAsDurations(MaxHours)

\* C8 (amended): for canonical times M:SS and H:MM:SS with H in 1..59,
\* StoltzenScraper.time_to_seconds gives non-negative integers, and a shorter
\* duration gives a smaller value.
C8_MonotoneHoursTo59 == OrderedAsDurations(59)

C8_Witness ==
    /\ ScraperConverted
    /\ current_time = StrVal(<<"9", ":", "5", "9">>)
    /\ best_previous = StrVal(<<"1", "0", ":", "0", "0">>)
    /\ call.current_seconds = IntVal(599)
    /\ call.previous_seconds = IntVal(600)

\* C9: time_to_seconds of either class never raises and returns None for
\* every malformed, empty or None argument; and when a conversion made by
\* is_new_best_time or calculate_time_difference returns None, they return
\* False and None, never raising themselves.
C9_NeverRaises ==
    /\ call.fn \in {"stat.time_to_seconds", "scraper.time_to_seconds"} =>
          /\ call.ret # Raised
          /\ Malformed(current_time) => call.ret = NoneVal
    /\ call.fn \in {"stat.is_new_best_time", "scraper.is_new_best_time"} =>
          /\ call.ret \in {BoolVal(TRUE), BoolVal(FALSE)}
          /\ call.current_seconds # Raised /\ call.previous_seconds # Raised
          /\ (call.converted /\ (call.current_seconds = NoneVal
                                 \/ call.previous_seconds = NoneVal))
                => call.ret = BoolVal(FALSE)
    /\ call.fn \in {"stat.calculate_time_difference",
                    "scraper.calculate_time_difference"} =>
          /\ call.ret # Raised
          /\ call.current_seconds # Raised /\ call.previous_seconds # Raised
          /\ (call.converted /\ (call.current_seconds = NoneVal
                                 \/ call.previous_seconds = NoneVal))
                => call.ret = NoneVal

C9_Witness ==
    /\ call.fn = "scraper.is_new_best_time"
    /\ call.converted
    /\ Malformed(current_time) /\ current_time # NoneVal
    /\ call.current_seconds = NoneVal
    /\ call.ret = BoolVal(FALSE)

(***************************************************************************)
(* Regular expressions of the profile page                                 *)
(***************************************************************************)
\* The length of the run of digits (of spaces) that starts at position i.
DigitRun(s, i) ==
    CHOOSE n \in 0..Len(s) :
        (\A k \in 0..(n - 1) : DigitAt(s, i + k)) /\ ~DigitAt(s, i + n)
SpaceRun(s, i) ==
    CHOOSE n \in 0..Len(s) :
        (\A k \in 0..(n - 1) : IsSpace(At(s, i + k))) /\ ~IsSpace(At(s, i + n))

\* (\d+)\.(\d+)\s*\((\d{4})\) at position i
IdCellMatchAt(s, i) ==
    LET a == DigitRun(s, i)
        b == DigitRun(s, i + a + 1)
        q == i + a + 1 + b + SpaceRun(s, i + a + 1 + b)
    IN  IF /\ a >= 1 /\ At(s, i + a) = "." /\ b >= 1
           /\ At(s, q) = "("
           /\ \A k \in 1..4 : DigitAt(s, q + k)
           /\ At(s, q + 5) = ")"
        THEN [found |-> TRUE,
              minutes |-> Slice(s, i, i + a - 1),
              seconds |-> Slice(s, i + a + 1, i + a + b),
              year |-> Slice(s, q + 1, q + 4)]
        ELSE NoMatch

IdCellSearch(s) ==
    LET starts == {i \in 1..Len(s) : IdCellMatchAt(s, i).found}
    IN  IF starts = {} THEN NoMatch
        ELSE IdCellMatchAt(s, CHOOSE i \in starts : \A j \in starts : i <= j)

\* \d+[.:]\d+(?:[.:]\d+)? at position i; text is match.group()
TimeMatchAt(s, i) ==
    LET a == DigitRun(s, i)
        b == DigitRun(s, i + a + 1)
        c == DigitRun(s, i + a + b + 2)
    IN  IF a >= 1 /\ SepAt(s, i + a) /\ b >= 1
        THEN [found |-> TRUE,
              text |-> IF SepAt(s, i + a + b + 1) /\ c >= 1
                       THEN Slice(s, i, i + a + b + 1 + c)
                       ELSE Slice(s, i, i + a + b)]
        ELSE NoMatch

TimeSearch(s) ==
    LET starts == {i \in 1..Len(s) : TimeMatchAt(s, i).found}
    IN  IF starts = {} THEN NoMatch
        ELSE TimeMatchAt(s, CHOOSE i \in starts : \A j \in starts : i <= j)

\* (20\d{2})
YearMatchAt(s, i) ==
    /\ At(s, i) = "2" /\ At(s, i + 1) = "0"
    /\ DigitAt(s, i + 2) /\ DigitAt(s, i + 3)

YearSearch(s) ==
    LET starts == {i \in 1..Len(s) : YearMatchAt(s, i)}
    IN  IF starts = {} THEN NoMatch
        ELSE LET i == CHOOSE k \in starts : \A j \in starts : k <= j
             IN  [found |-> TRUE, text |-> Slice(s, i, i + 3)]

Text2024 == <<"2", "0", "2", "4">>

\* sub in s
Contains(s, sub) ==
    \E i \in 1..(Len(s) - Len(sub) + 1) : SubSeq(s, i, i + Len(sub) - 1) = sub

(***************************************************************************)
(* StoltzenStatScraper.parse_participant_profile: the time fields.         *)
(* A page is its name (found or not), the texts of the cells with the ids  *)
(* personal_best and last_time (None: no such cell) and the rows of its    *)
(* tables, each a sequence of cell texts.  The name, class and             *)
(* participation count are read by code that touches none of the time      *)
(* fields.                                                                 *)
(***************************************************************************)
Max(a, b) == IF a >= b THEN a ELSE b
Min(a, b) == IF a <= b THEN a ELSE b

Best(t, y, secs) == [best_time |-> t, best_year |-> y, best_time_seconds |-> secs]

\* The cell with id personal_best, "07.54 (2016)".
StatPersonalBest(cell) ==
    LET m == IF cell = NoneVal THEN NoMatch ELSE IdCellSearch(Strip(cell.v))
    IN  IF m.found
        THEN Best(StrVal(m.minutes \o Colon \o m.seconds),
                  IntVal(DigitsToInt(m.year)),
                  IntVal(DigitsToInt(m.minutes) * 60 + DigitsToInt(m.seconds)))
        ELSE Best(NoneVal, NoneVal, NoneVal)

\* The cell with id last_time, "08.11 (2024)".
StatLastTime(cell) ==
    LET m == IF cell = NoneVal THEN NoMatch ELSE IdCellSearch(Strip(cell.v))
    IN  IF m.found /\ m.year = Text2024
        THEN StrVal(m.minutes \o Colon \o m.seconds)
        ELSE NoneVal

\* range(max(0, i-2), min(len(cells), i+3)), counted from 1
WindowLow(i) == Max(1, i - 2)
WindowHigh(cells, i) == Min(Len(cells), i + 2)

\* "Look for 2024": the time of the first neighbouring cell that holds one.
StatCurrentYearTime(cells, i, current_year_time) ==
    IF Contains(Strip(cells[i]), Text2024) /\ Falsy(current_year_time)
    THEN LET js == {j \in WindowLow(i)..WindowHigh(cells, i) :
                        j # i /\ TimeSearch(Strip(cells[j])).found}
         IN  IF js = {} THEN current_year_time
             ELSE LET j == CHOOSE k \in js : \A l \in js : k <= l
                  IN  StoltzenStatScraper_parse_time(
                          StrVal(TimeSearch(Strip(cells[j])).text))
    ELSE current_year_time

\* A plausible slip: a faster time replaces best_time and best_year while
\* best_time_seconds keeps the value it had.
RECURSIVE StatBestInWindow_StaleSeconds(_, _, _, _, _)
StatBestInWindow_StaleSeconds(cells, i, j, year, best) ==
    IF j > WindowHigh(cells, i) THEN best
    ELSE LET m == TimeSearch(Strip(cells[j]))
             parsed_time == StoltzenStatScraper_parse_time(StrVal(m.text))
             time_seconds == StoltzenStatScraper_time_to_seconds(parsed_time)
             faster ==
                 /\ j # i /\ m.found
                 /\ ~Falsy(parsed_time)
                 /\ ~Falsy(time_seconds)
                 /\ \/ best.best_time_seconds = NoneVal
                    \/ time_seconds.v < best.best_time_seconds.v
         IN  StatBestInWindow_StaleSeconds(cells, i, j + 1, year,
                 IF faster
                 THEN Best(parsed_time, IntVal(year),
                           IF best.best_time_seconds = NoneVal THEN time_seconds
                           ELSE best.best_time_seconds)
                 ELSE best)

\* "Look for time in adjacent cells" of a cell that names an earlier year: the
\* loop over j, from cell j on.
RECURSIVE StatBestInWindow(_, _, _, _, _)
StatBestInWindow(cells, i, j, year, best) ==
    IF j > WindowHigh(cells, i) THEN best
    ELSE LET m == TimeSearch(Strip(cells[j]))
             parsed_time == StoltzenStatScraper_parse_time(StrVal(m.text))
             time_seconds == StoltzenStatScraper_time_to_seconds(parsed_time)
             faster ==
                 /\ j # i /\ m.found
                 /\ ~Falsy(parsed_time)
                 /\ ~Falsy(time_seconds)
                 /\ \/ best.best_time_seconds = NoneVal
                    \/ time_seconds.v < best.best_time_seconds.v
         IN  StatBestInWindow(cells, i, j + 1, year,
                 IF faster THEN Best(parsed_time, IntVal(year), time_seconds)
                 ELSE best)

\* "Look for other years (not 2024) for best time"
StatBestTime(cells, i, best) ==
    LET year_match == YearSearch(Strip(cells[i]))
    IN  IF Falsy(best.best_time) /\ year_match.found /\ year_match.text # Text2024
        THEN StatBestInWindow(cells, i, WindowLow(i),
                              DigitsToInt(year_match.text), best)
        ELSE best

\* The cells the scan visits, in order: <<row, cell>> of every row with at
\* least two cells.
RECURSIVE CellPositions(_, _)
CellPositions(rows, r) ==
    IF r > Len(rows) THEN <<>>
    ELSE (IF Len(rows[r]) >= 2 THEN [i \in 1..Len(rows[r]) |-> <<r, i>>] ELSE <<>>)
         \o CellPositions(rows, r + 1)

\* "Set participant data" to the return statement.
StatParticipant(has_name, current_year_time, best) ==
    LET record ==
            [Navn |-> has_name,
             Tid |-> current_year_time,
             BesteTidligere |-> best.best_time,
             BesteAar |-> best.best_year,
             NyBestetid |->
                 is_new_best_time("stat",
                     current_year_time, best.best_time, best.best_year).ret,
             Differanse |->
                 calculate_time_difference("stat",
                     current_year_time, best.best_time).ret]
    IN  IF has_name /\ ~Falsy(current_year_time) THEN record ELSE NoneVal

(***************************************************************************)
(* Profile pages                                                           *)
(***************************************************************************)
\* Most rows of the tables of a generated page.
MaxRows == 2

Cell2016 == <<"2", "0", "1", "6">>
Cell2020 == <<"2", "0", "2", "0">>
Cell2024 == Text2024
Cell_8_11 == <<"8", ".", "1", "1">>
Cell_7_40 == <<"7", ":", "4", "0">>
Cell_7_30 == <<" ", "7", ".", "3", "0">>
Cell_0_00 == <<"0", ":", "0", "0">>
CellDNF == <<"D", "N", "F">>

RowTexts ==
    {<<Cell2016, Cell_8_11>>,
     <<Cell2020, Cell_7_40>>,
     <<Cell_7_40, Cell2020>>,
     <<Cell2024, Cell_7_30>>,
     <<Cell2024, Cell_7_30, Cell2016>>,
     <<Cell2016, Cell_8_11, Cell_7_40>>,
     <<Cell2016, Cell_0_00>>,
     <<Cell2020, Cell_8_11>>,
     <<Cell2020, CellDNF>>,
     <<Cell2016>>}

RECURSIVE RowSeqs(_)
RowSeqs(n) ==
    IF n = 0 THEN {<<>>}
    ELSE LET shorter == RowSeqs(n - 1)
         IN  shorter \cup {Append(rs, r) : rs \in {x \in shorter : Len(x) = n - 1},
                                           r \in RowTexts}

PersonalBestCells ==
    {NoneVal,
     StrVal(<<"0", "7", ".", "5", "4", " ", "(", "2", "0", "1", "6", ")">>),
     StrVal(<<"0", "7", ".", "5", "4", " ", "(", "2", "0", "2", "4", ")">>),
     StrVal(<<"-">>)}

LastTimeCells ==
    {NoneVal,
     StrVal(<<"0", "7", ".", "5", "4", " ", "(", "2", "0", "2", "4", ")">>),
     StrVal(<<"0", "8", ".", "1", "1", "(", "2", "0", "2", "3", ")">>)}

Pages ==
    [has_name : BOOLEAN, personal_best : PersonalBestCells,
     last_time : LastTimeCells, rows : RowSeqs(MaxRows)]

(***************************************************************************)
(* StoltzenStatScraper.parse_participant_profile, step by step             *)
(***************************************************************************)
Locals(pc, k, current_year_time, best) ==
    [pc |-> pc, k |-> k, current_year_time |-> current_year_time,
     best_time |-> best.best_time, best_year |-> best.best_year,
     best_time_seconds |-> best.best_time_seconds]

ScanBest == Best(scan.best_time, scan.best_year, scan.best_time_seconds)

InitProfile ==
    /\ time_str = NoneVal
    /\ ParseIdle /\ SecondsIdle /\ CompareIdle /\ ClassIdle /\ MainIdle
    /\ page \in Pages
    /\ scan = Locals("fetch", 0, NoneVal, Best(NoneVal, NoneVal, NoneVal))
    /\ participant = Unset

Others == UNCHANGED <<time_str, parseVars, secondsVars, compareVars, page, classVars, mainVars>>

\* fetch_page returned None: the function returns None.
StatFetchFailed ==
    /\ scan.pc = "fetch"
    /\ scan' = [scan EXCEPT !.pc = "done"]
    /\ participant' = NoneVal
    /\ Others

\* The page was fetched: the locals are set and the cells found by id read.
StatReadIdCells ==
    /\ scan.pc = "fetch"
    /\ scan' = Locals("scan", 1, StatLastTime(page.last_time),
                      StatPersonalBest(page.personal_best))
    /\ UNCHANGED participant
    /\ Others

\* One pass of "for i, cell in enumerate(cells)".
StatScanCell ==
    /\ scan.pc = "scan"
    /\ scan.k <= Len(CellPositions(page.rows, 1))
    /\ LET at == CellPositions(page.rows, 1)[scan.k]
           cells == page.rows[at[1]]
       IN  scan' = Locals("scan", scan.k + 1,
                          StatCurrentYearTime(cells, at[2], scan.current_year_time),
                          StatBestTime(cells, at[2], ScanBest))
    /\ UNCHANGED participant
    /\ Others

\* The loops are over: the record is filled in and returned.
StatReturn ==
    /\ scan.pc = "scan"
    /\ scan.k > Len(CellPositions(page.rows, 1))
    /\ scan' = [scan EXCEPT !.pc = "done"]
    /\ participant' = StatParticipant(page.has_name, scan.current_year_time, ScanBest)
    /\ Others

NextProfile ==
    \/ StatFetchFailed
    \/ StatReadIdCells
    \/ StatScanCell
    \/ StatReturn

SpecProfile == InitProfile /\ [][NextProfile]_vars

(***************************************************************************)
(* C10                                                                     *)
(***************************************************************************)
Returned == participant # Unset /\ participant # NoneVal

\* C10 (as stated): no record parse_participant_profile returns has a best
\* earlier result of the evaluation year: BesteAar is never 2024.
C10_BestNeverCurrentYear ==
    Returned => participant.BesteAar # IntVal(CurrentYear)

(***************************************************************************)
(* C11                                                                     *)
(***************************************************************************)
\* The earlier results written in the rows of a page, as the table scans pair
\* them up: cell i of a row of at least two cells names a year other than 2024
\* and cell j, at most two cells away, holds a time.
Pairings(rows) ==
    {p \in (1..Len(rows)) \X (1..3) \X (1..3) :
        /\ Len(rows[p[1]]) >= 2
        /\ p[2] <= Len(rows[p[1]]) /\ p[3] <= Len(rows[p[1]])
        /\ p[3] # p[2]
        /\ p[3] >= WindowLow(p[2]) /\ p[3] <= WindowHigh(rows[p[1]], p[2])
        /\ YearSearch(Strip(rows[p[1]][p[2]])).found
        /\ YearSearch(Strip(rows[p[1]][p[2]])).text # Text2024
        /\ TimeSearch(Strip(rows[p[1]][p[3]])).found}

RecordYear(rows, p) == IntVal(DigitsToInt(YearSearch(Strip(rows[p[1]][p[2]])).text))
RecordTime(cls, rows, p) ==
    parse_time(cls, StrVal(TimeSearch(Strip(rows[p[1]][p[3]])).text))
RecordSeconds(cls, rows, p) == time_to_seconds(cls, RecordTime(cls, rows, p))

\* The records with a comparable time.
HistoricalRecords(cls, rows) ==
    {p \in Pairings(rows) : RecordSeconds(cls, rows, p) # NoneVal}

\* C11 (as stated): when the page has no cell with the id personal_best, the
\* BesteTidligere of the record parse_participant_profile returns is at most,
\* in seconds, every earlier result (year other than 2024, comparable time)
\* written anywhere in the tables.
C11_FastestOfAllRecords ==
    (Returned /\ page.personal_best = NoneVal) =>
        \A p \in HistoricalRecords("stat", page.rows) :
            /\ participant.BesteTidligere # NoneVal
            /\ time_to_seconds("stat", participant.BesteTidligere).v
                   <= RecordSeconds("stat", page.rows, p).v

(***************************************************************************)
(* StoltzenScraper.parse_results_table: the record of one row of the       *)
(* results table.  Klasse and Deltagelser are written and read by code     *)
(* that touches none of the other fields.  A record without the key        *)
(* ProfileLink has ProfileLink = Unset.                                    *)
(***************************************************************************)
\* "Tid": self.parse_time(time_2024) or time_2024
ScraperTid(time_2024) ==
    LET parsed == StoltzenScraper_parse_time(StrVal(time_2024))
    IN  IF Falsy(parsed) THEN StrVal(time_2024) ELSE parsed

ScraperRow(name, time_2024, profile_link) ==
    [Navn |-> name,
     Tid |-> ScraperTid(time_2024),
     ProfileLink |-> profile_link,
     BesteTidligere |-> NoneVal,
     BesteAar |-> NoneVal,
     NyBestetid |-> NoneVal,
     Differanse |-> NoneVal]

(***************************************************************************)
(* StoltzenScraper.fetch_participant_profile                               *)
(***************************************************************************)
\* "Look for time in adjacent cells": the loop over j, from cell j on.  The
\* pattern \d+[.:]\d+[.:]\d+|\d+[.:]\d+ finds the same text as the
\* pattern of the other scraper.
RECURSIVE ScraperBestInWindow(_, _, _, _, _)
ScraperBestInWindow(cells, i, j, year, best) ==
    IF j > WindowHigh(cells, i) THEN best
    ELSE LET m == TimeSearch(Strip(cells[j]))
             parsed_time == StoltzenScraper_parse_time(StrVal(m.text))
             time_seconds == StoltzenScraper_time_to_seconds(parsed_time)
             faster ==
                 /\ j # i /\ m.found
                 /\ ~Falsy(parsed_time)
                 /\ ~Falsy(time_seconds)
                 /\ \/ best.best_time_seconds = NoneVal
                    \/ time_seconds.v < best.best_time_seconds.v
         IN  ScraperBestInWindow(cells, i, j + 1, year,
                 IF faster THEN Best(parsed_time, IntVal(year), time_seconds)
                 ELSE best)

\* A plausible slip: the year found is not compared with 2024.
ScraperBestTime_AnyYear(cells, i, best) ==
    LET year_match == YearSearch(Strip(cells[i]))
    IN  IF year_match.found
        THEN ScraperBestInWindow(cells, i, WindowLow(i),
                                 DigitsToInt(year_match.text), best)
        ELSE best

\* "Look for year (but not 2024)"
ScraperBestTime(cells, i, best) ==
    LET year_match == YearSearch(Strip(cells[i]))
    IN  IF year_match.found /\ year_match.text # Text2024
        THEN ScraperBestInWindow(cells, i, WindowLow(i),
                                 DigitsToInt(year_match.text), best)
        ELSE best

\* participant["BesteTidligere"] = best_time ... participant["Differanse"] = ...
ScraperProfileFields(p, best) ==
    [p EXCEPT !.BesteTidligere = best.best_time,
              !.BesteAar = best.best_year,
              !.NyBestetid =
                  is_new_best_time("scraper",
                      p.Tid, best.best_time, best.best_year).ret,
              !.Differanse =
                  calculate_time_difference("scraper", p.Tid, best.best_time).ret]

\* participant.pop("ProfileLink", None)
PopProfileLink(p) == [p EXCEPT !.ProfileLink = Unset]

ScraperLocals(pc, k, best) ==
    [pc |-> pc, k |-> k,
     best_time |-> best.best_time, best_year |-> best.best_year,
     best_time_seconds |-> best.best_time_seconds]

\* The texts of the time cell of the results table and the profile links.
TimeCells ==
    {<<"7", ".", "5", "4">>, <<"7", ".", "3", "0">>, <<"8", ".", "1", "1">>,
     <<"D", "N", "F">>, <<>>}
ProfileLinks == {NoneVal, StrVal(<<"s", "t", "a", "t", ".", "p", "h", "p">>)}

FetchPages ==
    [has_name : {TRUE}, personal_best : {NoneVal}, last_time : {NoneVal},
     rows : RowSeqs(MaxRows)]

InitFetch ==
    /\ time_str = NoneVal
    /\ ParseIdle /\ SecondsIdle /\ CompareIdle /\ ClassIdle /\ MainIdle
    /\ page \in FetchPages
    /\ scan = ScraperLocals("start", 0, Best(NoneVal, NoneVal, NoneVal))
    /\ participant \in {ScraperRow("Ada", t, l) : t \in TimeCells, l \in ProfileLinks}

\* if not participant.get("ProfileLink"): return participant
ScraperNoProfileLink ==
    /\ scan.pc = "start"
    /\ Falsy(participant.ProfileLink)
    /\ scan' = [scan EXCEPT !.pc = "returned"]
    /\ UNCHANGED participant
    /\ Others

\* fetch_page returned None: return participant
ScraperFetchFailed ==
    /\ scan.pc = "start"
    /\ ~Falsy(participant.ProfileLink)
    /\ scan' = [scan EXCEPT !.pc = "returned"]
    /\ UNCHANGED participant
    /\ Others

\* fetch_page raised something other than a RequestException, which leaves
\* fetch_participant_profile.
ScraperFetchRaised ==
    /\ scan.pc = "start"
    /\ ~Falsy(participant.ProfileLink)
    /\ scan' = [scan EXCEPT !.pc = "raised"]
    /\ UNCHANGED participant
    /\ Others

\* The page was fetched: best_time = best_year = best_time_seconds = None.
ScraperStartScan ==
    /\ scan.pc = "start"
    /\ ~Falsy(participant.ProfileLink)
    /\ scan' = ScraperLocals("tables", 1, Best(NoneVal, NoneVal, NoneVal))
    /\ UNCHANGED participant
    /\ Others

\* One pass of "for i, cell in enumerate(cells)".
ScraperScanCell ==
    /\ scan.pc = "tables"
    /\ scan.k <= Len(CellPositions(page.rows, 1))
    /\ LET at == CellPositions(page.rows, 1)[scan.k]
           cells == page.rows[at[1]]
       IN  scan' = ScraperLocals("tables", scan.k + 1,
                                 ScraperBestTime(cells, at[2], ScanBest))
    /\ UNCHANGED participant
    /\ Others

\* A call of the parsing library raised inside the try block: the handler
\* prints, the link is removed and the record returned as it was.
ScraperParseRaised ==
    /\ scan.pc = "tables"
    /\ scan' = [scan EXCEPT !.pc = "returned"]
    /\ participant' = PopProfileLink(participant)
    /\ Others

\* The loops are over: the fields are set, the link removed, the record
\* returned.
ScraperFinish ==
    /\ scan.pc = "tables"
    /\ scan.k > Len(CellPositions(page.rows, 1))
    /\ scan' = [scan EXCEPT !.pc = "returned"]
    /\ participant' = PopProfileLink(ScraperProfileFields(participant, ScanBest))
    /\ Others

NextFetch ==
    \/ ScraperNoProfileLink
    \/ ScraperFetchFailed
    \/ ScraperFetchRaised
    \/ ScraperStartScan
    \/ ScraperScanCell
    \/ ScraperParseRaised
    \/ ScraperFinish

SpecFetch == InitFetch /\ [][NextFetch]_vars

(***************************************************************************)
(* C12                                                                     *)
(***************************************************************************)
\* The profile was read to the end.
Profiled == scan.pc = "returned" /\ participant.NyBestetid # NoneVal

\* p is met no later than q by the scan.
ScanOrder(p, q) ==
    \/ p[1] < q[1]
    \/ p[1] = q[1] /\ p[2] < q[2]
    \/ p[1] = q[1] /\ p[2] = q[2] /\ p[3] <= q[3]

\* The fastest record, the first of them in scan order.
FirstFastest(cls, rows) ==
    CHOOSE p \in HistoricalRecords(cls, rows) :
        \A q \in HistoricalRecords(cls, rows) :
            \/ RecordSeconds(cls, rows, p).v < RecordSeconds(cls, rows, q).v
            \/ /\ RecordSeconds(cls, rows, p).v = RecordSeconds(cls, rows, q).v
               /\ ScanOrder(p, q)

\* C12 (as stated): the (BesteTidligere, BesteAar) fetch_participant_profile
\* selects is the earlier result of least seconds among all those with a
\* comparable time, one of zero seconds included, and among several of that
\* least value the first in scan order.
C12_MinimumFirstWins ==
    (Profiled /\ HistoricalRecords("scraper", page.rows) # {}) =>
        /\ participant.BesteTidligere =
               RecordTime("scraper", page.rows, FirstFastest("scraper", page.rows))
        /\ participant.BesteAar =
               RecordYear(page.rows, FirstFastest("scraper", page.rows))

(***************************************************************************)
(* C13                                                                     *)
(***************************************************************************)
Present(x) == ~Falsy(x)
Comparable(cls, x) == Present(x) /\ time_to_seconds(cls, x) # NoneVal
Incomparable(cls, x) == Present(x) /\ time_to_seconds(cls, x) = NoneVal

\* bestYear < 2024 and toSeconds(current) < toSeconds(best)
EarlierAndBeaten(cls) ==
    /\ best_year # NoneVal /\ best_year.v < CurrentYear
    /\ Comparable(cls, current_time) /\ Comparable(cls, best_previous)
    /\ time_to_seconds(cls, current_time).v < time_to_seconds(cls, best_previous).v

IsNewBestCall(cls) ==
    \/ cls = "stat" /\ call.fn = "stat.is_new_best_time"
    \/ cls = "scraper" /\ call.fn = "scraper.is_new_best_time"

\* C13 (as stated): is_new_best_time answers True exactly when current is
\* present and either best and bestYear are both absent or bestYear < 2024
\* and current is the faster; it answers False whenever either time is
\* incomparable.
C13_BothAbsent ==
    \A cls \in {"stat", "scraper"} :
        IsNewBestCall(cls) =>
            /\ call.ret = BoolVal(
                   /\ Present(current_time)
                   /\ \/ ~Present(best_previous) /\ best_year = NoneVal
                      \/ EarlierAndBeaten(cls))
            /\ (Incomparable(cls, current_time) \/ Incomparable(cls, best_previous))
                   => call.ret = BoolVal(FALSE)

\* C13 (amended): is_new_best_time answers True exactly when current is
\* present and either best is absent, or bestYear is absent, or bestYear <
\* 2024 and both times are comparable and current is the faster.  So it
\* answers False when current is absent, and when best and bestYear are both
\* present and bestYear >= 2024 or either time is incomparable.
C13_EitherAbsent ==
    \A cls \in {"stat", "scraper"} :
        IsNewBestCall(cls) =>
            /\ call.ret = BoolVal(
                   /\ Present(current_time)
                   /\ \/ ~Present(best_previous)
                      \/ best_year = NoneVal
                      \/ EarlierAndBeaten(cls))
            /\ (Present(best_previous) /\ best_year # NoneVal
                /\ \/ best_year.v >= CurrentYear
                   \/ Incomparable(cls, current_time)
                   \/ Incomparable(cls, best_previous))
                   => call.ret = BoolVal(FALSE)
            /\ ~Present(current_time) => call.ret = BoolVal(FALSE)

C13_Witness ==
    /\ call.fn = "stat.is_new_best_time"
    /\ current_time = StrVal(<<"D", "N", "F">>)
    /\ best_previous = NoneVal /\ best_year = NoneVal
    /\ call.ret = BoolVal(TRUE)

DifferenceCall(cls) ==
    \/ cls = "stat" /\ call.fn = "stat.calculate_time_difference"
    \/ cls = "scraper" /\ call.fn = "scraper.calculate_time_difference"

\* n in 0..59 written with two digits
Padded2(n) == IF n < 10 THEN <<"0">> \o IntToDigits(n) ELSE IntToDigits(n)

\* The text the statement gives for a difference of d seconds.
DeltaText(d) ==
    IF d = 0 THEN <<"0", ":", "0", "0">>
    ELSE <<IF d < 0 THEN "-" ELSE "+">>
         \o IntToDigits(Abs(d) \div 60) \o <<":">> \o Padded2(Abs(d) % 60)

\* C15: calculate_time_difference(current, best) is absent when either
\* argument is absent or incomparable; otherwise, with d = toSeconds(current)
\* - toSeconds(best), it is "0:00" for d = 0 and else the sign, |d| div 60
\* unpadded, ':' and |d| mod 60 on two digits; 7:54 against 7:40 gives
\* "+0:14" and 7:30 against 8:11 gives "-0:41".
C15_SignedDifference ==
    \A cls \in {"stat", "scraper"} :
        DifferenceCall(cls) =>
            /\ (~Comparable(cls, current_time) \/ ~Comparable(cls, best_previous))
                   => call.ret = NoneVal
            /\ (Comparable(cls, current_time) /\ Comparable(cls, best_previous))
                   => call.ret =
                          StrVal(DeltaText(time_to_seconds(cls, current_time).v
                                           - time_to_seconds(cls, best_previous).v))
            /\ (/\ current_time = StrVal(<<"7", ":", "5", "4">>)
                /\ best_previous = StrVal(<<"7", ":", "4", "0">>))
                   => call.ret = StrVal(<<"+", "0", ":", "1", "4">>)
            /\ (/\ current_time = StrVal(<<"7", ":", "3", "0">>)
                /\ best_previous = StrVal(<<"8", ":", "1", "1">>))
                   => call.ret = StrVal(<<"-", "0", ":", "4", "1">>)

C15_Witness ==
    /\ call.fn = "stat.calculate_time_difference"
    /\ current_time = StrVal(<<"7", ":", "3", "0">>)
    /\ best_previous = StrVal(<<"8", ":", "1", "1">>)
    /\ call.ret = StrVal(<<"-", "0", ":", "4", "1">>)

(***************************************************************************)
(* Class labels                                                            *)
(***************************************************************************)
LabelWords ==
    {<<"K", "v", "i", "n", "n", "e", "r">>, <<"K", "V", "I", "N", "N", "E">>,
     <<"D", "a", "m", "e">>, <<"k", "v", "i", "n", "n">>,
     <<"P", "l", "u", "s", "s", " ", "9", "0", "k", "g">>,
     <<"p", "l", "u", "s", "s", "9", "0", "K", "G">>,
     <<"P", "L", "U", "S", "S">>, <<"9", "0", "k", "g">>,
     <<"M", "e", "n", "n">>, <<"M", "a", "n", "n">>, <<"m", "e", "n">>,
     <<"H", "e", "r", "r", "e", "r">>, <<"h", "e", "r", "r", "e">>,
     <<"J", "u", "n", "i", "o", "r">>, <<>>}
LabelPrefixes == {<<>>, <<" ">>, <<"P", "l", "u", "s", "s", " ">>}
LabelSuffixes == {<<>>, <<" ", "4", "0", "-", "4", "4">>,
                  <<" ", "k", "v", "i", "n", "n", "e", "r">>}

ClassLabels ==
    {NoneVal} \cup {StrVal(a \o w \o b) :
                        a \in LabelPrefixes, w \in LabelWords, b \in LabelSuffixes}

InitClass ==
    /\ time_str = NoneVal
    /\ ParseIdle /\ SecondsIdle /\ CompareIdle /\ ProfileIdle /\ MainIdle
    /\ class_text \in ClassLabels
    /\ statGruppe = Unset /\ scrCategory = Unset /\ group_order = Unset

Rest == UNCHANGED <<time_str, parseVars, secondsVars, compareVars, profileVars,
                    mainVars, class_text>>

\* participant["Gruppe"] = self.determine_group_from_class(current_year_class)
StatDetermineGroup ==
    /\ statGruppe' = determine_group_from_class(class_text)
    /\ UNCHANGED <<scrCategory, group_order>>
    /\ Rest

\* A row of the results table is put into its category.
ScraperCategorise ==
    /\ scrCategory' = current_category(class_text)
    /\ UNCHANGED <<statGruppe, group_order>>
    /\ Rest

\* get_sort_key is called on the record.
StatGroupOrder ==
    /\ statGruppe # Unset
    /\ group_order' = GroupOrder(statGruppe)
    /\ UNCHANGED <<statGruppe, scrCategory>>
    /\ Rest

NextClass ==
    \/ StatDetermineGroup
    \/ ScraperCategorise
    \/ StatGroupOrder

SpecClass == InitClass /\ [][NextClass]_vars

(***************************************************************************)
(* C17                                                                     *)
(***************************************************************************)
Groups == {Dame, Mann, Pluss}

LabelText == IF class_text = NoneVal THEN <<>> ELSE Lower(class_text.v)

StatKeywords ==
    {kvinner, kvinne, dame, pluss_90kg, pluss90kg, pluss, menn, mann, herrer, herre}
ScraperKeywords == {kvinner, pluss_90kg, pluss90kg, menn, herrer}

\* C17: for every class label, absent and empty included, each scraper
\* assigns exactly one of Dame, Mann, Pluss, and Mann to a label holding
\* none of the keywords it recognises; so the group priority 4 of the stat
\* scraper's sort key is never used.
C17_ClosedClassification ==
    /\ statGruppe # Unset =>
          /\ statGruppe \in Groups
          /\ (\A w \in StatKeywords : ~In(w, LabelText)) => statGruppe = Mann
    /\ scrCategory # Unset =>
          /\ scrCategory \in Groups
          /\ (\A w \in ScraperKeywords : ~In(w, LabelText)) => scrCategory = Mann
    /\ group_order # Unset => group_order \in {IntVal(1), IntVal(2), IntVal(3)}

C17_Witness ==
    /\ class_text = NoneVal
    /\ statGruppe = Mann /\ scrCategory = Mann /\ group_order = IntVal(2)

(***************************************************************************)
(* Both profile scans                                                      *)
(***************************************************************************)
SpecScans == (InitProfile \/ InitFetch) /\ [][NextProfile \/ NextFetch]_vars

(***************************************************************************)
(* C18                                                                     *)
(***************************************************************************)
\* The scraper whose scan is running.
ScanClass == IF scan.pc \in {"fetch", "scan", "done"} THEN "stat" ELSE "scraper"

\* C18: at every point of the best-time scan of either scraper, a set
\* best_time has best_time_seconds = time_to_seconds(best_time), and
\* best_time, best_year and best_time_seconds are all three absent or all
\* three present.
C18_NoStaleSeconds ==
    /\ scan.best_time # NoneVal =>
          scan.best_time_seconds = time_to_seconds(ScanClass, scan.best_time)
    /\ \/ /\ scan.best_time = NoneVal
          /\ scan.best_year = NoneVal
          /\ scan.best_time_seconds = NoneVal
       \/ /\ scan.best_time # NoneVal
          /\ scan.best_year # NoneVal
          /\ scan.best_time_seconds # NoneVal

C18_Witness ==
    /\ scan.pc = "scan"
    /\ page.personal_best = NoneVal
    /\ page.rows = <<<<Cell2016, Cell_8_11, Cell_7_40>>>>
    /\ scan.best_time = StrVal(<<"7", ":", "4", "0">>)
    /\ scan.best_year = IntVal(2016)
    /\ scan.best_time_seconds = IntVal(460)

(***************************************************************************)
(* StoltzenScraper.fetch_participant_profile as one call.  web is what the *)
(* profile address of the participant answers: "failed" (fetch_page        *)
(* returns None), "raised" (fetch_page raises something other than a       *)
(* RequestException), "garbled" (a call of the parsing library raises      *)
(* inside the try block) or the page.                                      *)
(***************************************************************************)
\* The scan from the k-th cell visited on, best being the locals before it.
RECURSIVE ScraperScanFrom(_, _, _)
ScraperScanFrom(rows, k, best) ==
    IF k > Len(CellPositions(rows, 1)) THEN best
    ELSE LET at == CellPositions(rows, 1)[k]
         IN  CHOOSE last \in {ScraperScanFrom(rows, k + 1, next) :
                                 next \in {ScraperBestTime(rows[at[1]], at[2], best)}} :
                 TRUE

Answer(kind) == [answer |-> kind]
Served(rows) == [answer |-> "page", rows |-> rows]

\* The record returned; Raised when the call raises.
fetch_participant_profile(p, web) ==
    IF Falsy(p.ProfileLink) THEN p
    ELSE IF web.answer = "failed" THEN p
    ELSE IF web.answer = "raised" THEN Raised
    ELSE IF web.answer = "garbled" THEN PopProfileLink(p)
    ELSE CHOOSE updated \in
             {PopProfileLink(ScraperProfileFields(p, best)) :
                  best \in {ScraperScanFrom(web.rows, 1,
                                            Best(NoneVal, NoneVal, NoneVal))}} :
             TRUE

(***************************************************************************)
(* list.sort(key=get_sort_key): stable, ascending.  A key is               *)
(* <<0, seconds>> or, for float('inf'), <<1, 0>>; a key of the stat        *)
(* scraper has the group order in front.                                   *)
(***************************************************************************)
Infinity == <<1, 0>>

\* A plausible slip: a time that does not convert sorts as 0 seconds.
ScraperSortKey_ZeroForNone(p) ==
    IF Falsy(p.Tid) THEN Infinity
    ELSE LET time_seconds == StoltzenScraper_time_to_seconds(p.Tid)
         IN  IF time_seconds # NoneVal THEN <<0, time_seconds.v>> ELSE <<0, 0>>

\* get_sort_key of StoltzenScraper's main
ScraperSortKey(p) ==
    IF Falsy(p.Tid) THEN Infinity
    ELSE LET time_seconds == StoltzenScraper_time_to_seconds(p.Tid)
         IN  IF time_seconds # NoneVal THEN <<0, time_seconds.v>> ELSE Infinity

\* get_sort_key of StoltzenStatScraper's main
StatSortKey(p) ==
    <<GroupOrder(p.Gruppe).v>>
    \o (IF Falsy(p.Tid) THEN Infinity
        ELSE LET time_seconds == StoltzenStatScraper_time_to_seconds(p.Tid)
             IN  IF time_seconds # NoneVal THEN <<0, time_seconds.v>> ELSE Infinity)

get_sort_key(cls, p) == IF cls = "stat" THEN StatSortKey(p) ELSE ScraperSortKey(p)

\* a < b for two keys of the same length
RECURSIVE KeyLess(_, _)
KeyLess(a, b) ==
    IF Len(a) = 0 THEN FALSE
    ELSE \/ a[1] < b[1]
         \/ a[1] = b[1] /\ KeyLess(Tail(a), Tail(b))

\* x put behind the last element of a sorted list whose key is not greater
\* than its own.
Inserted(cls, sorted, x) ==
    LET n == Cardinality({i \in 1..Len(sorted) :
                 ~KeyLess(get_sort_key(cls, x), get_sort_key(cls, sorted[i]))})
    IN  SubSeq(sorted, 1, n) \o <<x>> \o SubSeq(sorted, n + 1, Len(sorted))

\* A plausible slip: sorted(...) called and its result dropped, the list
\* left as it was.
SortByKey_Dropped(cls, list) == list

RECURSIVE SortByKey(_, _)
SortByKey(cls, list) ==
    IF list = <<>> THEN <<>>
    ELSE CHOOSE result \in {Inserted(cls, sorted, list[Len(list)]) :
                               sorted \in {SortByKey(cls, SubSeq(list, 1, Len(list) - 1))}} :
             TRUE

(***************************************************************************)
(* main of stoltzen_scraper.py.  results_table holds the rows of the       *)
(* results table that parse_results_table accepts, each with the texts of  *)
(* its time and class cells, its profile link and what the address of the  *)
(* profile answers.  The name of a participant is the number of the row.   *)
(***************************************************************************)
Future(category, p, web) ==
    [category |-> category, participant |-> p, web |-> web,
     state |-> "new", outcome |-> Unset, yielded |-> FALSE]

\* results[c] for the rows from i on
RECURSIVE Category(_, _, _)
Category(rows, c, i) ==
    IF i > Len(rows) THEN <<>>
    ELSE (IF current_category(rows[i].class) = c
          THEN <<Future(c, ScraperRow(i, rows[i].time, rows[i].link), rows[i].web)>>
          ELSE <<>>)
         \o Category(rows, c, i + 1)

\* all_participants: results.items() runs through Mann, Dame, Pluss
all_participants(rows) ==
    Category(rows, Mann, 1) \o Category(rows, Dame, 1) \o Category(rows, Pluss, 1)

\* A plausible slip: the handler of a failed task logs it and goes on, without
\* appending the original record.
Collect_DropFailed(processed_results, f) ==
    IF f.outcome = Raised THEN processed_results
    ELSE [processed_results EXCEPT ![f.category] = Append(@, f.outcome)]

\* The body of "for future in as_completed(...)" for the future f.
Collect(processed_results, f) ==
    IF f.outcome = Raised
    THEN [processed_results EXCEPT
              ![f.category] = Append(@, PopProfileLink(f.participant))]
    ELSE [processed_results EXCEPT ![f.category] = Append(@, f.outcome)]
\* Most rows of a results table, most addresses of a list of addresses.
MaxParticipants == 3

ProfileLink == StrVal(<<"s", "t", "a", "t", ".", "p", "h", "p">>)
ProfilePage == Served(<<<<Cell2016, Cell_8_11>>, <<Cell2020, Cell_7_40>>>>)

TableRow(class, time, link, web) ==
    [class |-> class, time |-> time, link |-> link, web |-> web]

TableRows ==
    {TableRow(StrVal(<<"M", "e", "n", "n">>), <<"7", ".", "5", "4">>, ProfileLink, ProfilePage),
     TableRow(StrVal(<<"M", "e", "n", "n">>), <<"7", ".", "5", "4">>, NoneVal, Answer("failed")),
     TableRow(StrVal(<<"M", "e", "n", "n">>), <<"7", ".", "3", "0">>, ProfileLink, Answer("failed")),
     TableRow(NoneVal, <<"D", "N", "F">>, ProfileLink, Answer("raised")),
     TableRow(StrVal(<<"M", "e", "n", "n">>), <<>>, ProfileLink, Answer("garbled")),
     TableRow(StrVal(<<"K", "v", "i", "n", "n", "e", "r">>), <<"8", ".", "1", "1">>, ProfileLink, ProfilePage),
     TableRow(StrVal(<<"P", "l", "u", "s", "s", " ", "9", "0", "k", "g">>), <<"8", ".", "1", "1">>, NoneVal, Answer("failed"))}

RECURSIVE Lists(_, _)
Lists(S, n) ==
    IF n = 0 THEN {<<>>}
    ELSE LET shorter == Lists(S, n - 1)
         IN  shorter \cup {Append(l, x) : l \in {y \in shorter : Len(y) = n - 1},
                                          x \in S}

InitScraperMain ==
    /\ time_str = NoneVal
    /\ ParseIdle /\ SecondsIdle /\ CompareIdle /\ ProfileIdle /\ ClassIdle
    /\ results_table \in Lists(TableRows, MaxParticipants)
    /\ futures = <<>>
    /\ collected = [c \in {Mann, Dame, Pluss} |-> <<>>]
    /\ main_pc = "scraper.fetch"

NotMain == UNCHANGED <<time_str, parseVars, secondsVars, compareVars,
                       profileVars, classVars, results_table>>

\* The results page could not be fetched: "Failed to fetch the main page".
ScraperMainPageFailed ==
    /\ main_pc = "scraper.fetch"
    /\ main_pc' = "scraper.failed"
    /\ UNCHANGED <<futures, collected>>
    /\ NotMain

\* results = scraper.parse_results_table(soup), and all_participants
ScraperParseResultsTable ==
    /\ main_pc = "scraper.fetch"
    /\ futures' = all_participants(results_table)
    /\ main_pc' = "scraper.submit"
    /\ UNCHANGED collected
    /\ NotMain

\* executor.submit(fetch_profile_wrapper, participant), in the order of
\* all_participants
ScraperSubmit ==
    /\ main_pc = "scraper.submit"
    /\ \E i \in 1..Len(futures) :
          /\ futures[i].state = "new"
          /\ \A j \in 1..(i - 1) : futures[j].state # "new"
          /\ futures' = [futures EXCEPT ![i].state = "running"]
    /\ UNCHANGED <<collected, main_pc>>
    /\ NotMain

\* The with block reaches "for future in as_completed(...)".
ScraperAllSubmitted ==
    /\ main_pc = "scraper.submit"
    /\ \A i \in 1..Len(futures) : futures[i].state # "new"
    /\ main_pc' = "scraper.collect"
    /\ UNCHANGED <<futures, collected>>
    /\ NotMain

\* A worker thread finishes fetch_participant_profile for one participant;
\* the record it was handed is the one it changed.
ScraperTaskDone ==
    /\ main_pc \in {"scraper.submit", "scraper.collect"}
    /\ \E i \in 1..Len(futures) :
          /\ futures[i].state = "running"
          /\ \E outcome \in {fetch_participant_profile(futures[i].participant,
                                                        futures[i].web)} :
                futures' = [futures EXCEPT
                    ![i] = [@ EXCEPT
                        !.state = "finished",
                        !.outcome = outcome,
                        !.participant = IF outcome = Raised THEN @ ELSE outcome]]
    /\ UNCHANGED <<collected, main_pc>>
    /\ NotMain

\* as_completed hands out a finished future; its record is appended.
ScraperCollect ==
    /\ main_pc = "scraper.collect"
    /\ \E i \in 1..Len(futures) :
          /\ futures[i].state = "finished" /\ ~futures[i].yielded
          /\ collected' = Collect(collected, futures[i])
          /\ futures' = [futures EXCEPT ![i].yielded = TRUE]
    /\ UNCHANGED main_pc
    /\ NotMain

\* Every future was handed out: each category is sorted and the JSON printed.
ScraperSortAndPrint ==
    /\ main_pc = "scraper.collect"
    /\ \A i \in 1..Len(futures) : futures[i].yielded
    /\ collected' = [c \in DOMAIN collected |-> SortByKey("scraper", collected[c])]
    /\ main_pc' = "scraper.done"
    /\ UNCHANGED futures
    /\ NotMain

NextScraperMain ==
    \/ ScraperMainPageFailed
    \/ ScraperParseResultsTable
    \/ ScraperSubmit
    \/ ScraperAllSubmitted
    \/ ScraperTaskDone
    \/ ScraperCollect
    \/ ScraperSortAndPrint

\* main has a step to take: <<NextScraperMain>>_vars is enabled exactly here
\* (a future that is running can finish, one that is finished can be handed
\* out, and when all were handed out main sorts and prints).
ScraperMainRunning ==
    main_pc \in {"scraper.fetch", "scraper.submit", "scraper.collect"}

\* Every request has a timeout and the pool runs every task it was given:
\* a task that can finish does, and so does main.  This is weak fairness of
\* NextScraperMain, with its enabling condition written out.
ScraperMainFairness ==
    ([]<>(~ScraperMainRunning)) \/ ([]<><<NextScraperMain>>_vars)

SpecScraperMain ==
    InitScraperMain /\ [][NextScraperMain]_vars /\ ScraperMainFairness

(***************************************************************************)
(* StoltzenStatScraper.parse_participant_profile as one call, and main of  *)
(* stoltzen_stat_scraper.py.  results_table holds, for each address of the *)
(* list, what it answers: a page comes with the class text the function    *)
(* finds for 2024 (current_year_class, None when it finds none).           *)
(***************************************************************************)
StatServed(has_name, last_time, rows, class) ==
    [answer |-> "page", has_name |-> has_name, personal_best |-> NoneVal,
     last_time |-> last_time, rows |-> rows, class |-> class]

\* The scan from the k-th cell visited on.
RECURSIVE StatScanFrom(_, _, _, _)
StatScanFrom(rows, k, current_year_time, best) ==
    IF k > Len(CellPositions(rows, 1))
    THEN [current_year_time |-> current_year_time, best |-> best]
    ELSE LET at == CellPositions(rows, 1)[k]
         IN  CHOOSE last \in
                 {StatScanFrom(rows, k + 1, t, b) :
                      t \in {StatCurrentYearTime(rows[at[1]], at[2], current_year_time)},
                      b \in {StatBestTime(rows[at[1]], at[2], best)}} :
                 TRUE

\* The record returned, with its Gruppe; None when the function gives up;
\* Raised when fetch_page, which is called outside the try block, raises.
parse_participant_profile(web) ==
    IF web.answer = "failed" THEN NoneVal
    ELSE IF web.answer = "raised" THEN Raised
    ELSE IF web.answer = "garbled" THEN NoneVal
    ELSE CHOOSE returned \in
             {IF base = NoneVal THEN NoneVal
              ELSE [Gruppe |-> determine_group_from_class(web.class)] @@ base :
                  base \in {StatParticipant(web.has_name, found.current_year_time,
                                            found.best) :
                      found \in {StatScanFrom(web.rows, 1,
                                              StatLastTime(web.last_time),
                                              StatPersonalBest(web.personal_best))}}} :
             TRUE

StatFuture(web) == [web |-> web, state |-> "running", outcome |-> Unset, yielded |-> FALSE]

LastTime_07_54 == StrVal(<<"0", "7", ".", "5", "4", " ", "(", "2", "0", "2", "4", ")">>)

StatAnswers ==
    {StatServed(TRUE, LastTime_07_54, <<>>, StrVal(<<"M", "e", "n", "n">>)),
     StatServed(TRUE, LastTime_07_54, <<<<Cell2016, Cell_8_11>>>>, NoneVal),
     StatServed(TRUE, NoneVal, <<<<Cell2024, Cell_7_30>>>>, StrVal(<<"M", "e", "n", "n">>)),
     StatServed(TRUE, NoneVal, <<<<Cell2024, Cell_7_30>>>>,
                StrVal(<<"K", "v", "i", "n", "n", "e", "r">>)),
     StatServed(TRUE, LastTime_07_54, <<>>, StrVal(<<"P", "l", "u", "s", "s">>)),
     StatServed(FALSE, LastTime_07_54, <<>>, StrVal(<<"M", "e", "n", "n">>)),
     Answer("failed"),
     Answer("raised")}

InitStatMain ==
    /\ time_str = NoneVal
    /\ ParseIdle /\ SecondsIdle /\ CompareIdle /\ ProfileIdle /\ ClassIdle
    /\ results_table \in Lists(StatAnswers, MaxParticipants)
    /\ futures = <<>>
    /\ collected = <<>>
    /\ main_pc = "stat.load"

\* load_urls_from_file found no address: "No valid URLs found in file".
StatNoUrls ==
    /\ main_pc = "stat.load"
    /\ results_table = <<>>
    /\ main_pc' = "stat.returned"
    /\ UNCHANGED <<futures, collected>>
    /\ NotMain

\* future_to_url = {executor.submit(...): url for url in urls}
StatSubmitAll ==
    /\ main_pc = "stat.load"
    /\ results_table # <<>>
    /\ futures' = [i \in 1..Len(results_table) |-> StatFuture(results_table[i])]
    /\ main_pc' = "stat.collect"
    /\ UNCHANGED collected
    /\ NotMain

\* A worker thread finishes parse_participant_profile for one address.
StatTaskDone ==
    /\ main_pc = "stat.collect"
    /\ \E i \in 1..Len(futures) :
          /\ futures[i].state = "running"
          /\ \E outcome \in {parse_participant_profile(futures[i].web)} :
                futures' = [futures EXCEPT
                    ![i] = [@ EXCEPT !.state = "finished", !.outcome = outcome]]
    /\ UNCHANGED <<collected, main_pc>>
    /\ NotMain

\* as_completed hands out a finished future; a record is appended, None and
\* an exception are reported.
StatCollect ==
    /\ main_pc = "stat.collect"
    /\ \E i \in 1..Len(futures) :
          /\ futures[i].state = "finished" /\ ~futures[i].yielded
          /\ collected' =
                 IF futures[i].outcome \in {Raised, NoneVal} THEN collected
                 ELSE Append(collected, futures[i].outcome)
          /\ futures' = [futures EXCEPT ![i].yielded = TRUE]
    /\ UNCHANGED main_pc
    /\ NotMain

\* if not participants: "No participants found"
StatNoParticipants ==
    /\ main_pc = "stat.collect"
    /\ \A i \in 1..Len(futures) : futures[i].yielded
    /\ collected = <<>>
    /\ main_pc' = "stat.returned"
    /\ UNCHANGED <<futures, collected>>
    /\ NotMain

\* participants.sort(key=get_sort_key), and the CSV file is written.
StatSortAndWrite ==
    /\ main_pc = "stat.collect"
    /\ \A i \in 1..Len(futures) : futures[i].yielded
    /\ collected # <<>>
    /\ collected' = SortByKey("stat", collected)
    /\ main_pc' = "stat.done"
    /\ UNCHANGED futures
    /\ NotMain

NextStatMain ==
    \/ StatNoUrls
    \/ StatSubmitAll
    \/ StatTaskDone
    \/ StatCollect
    \/ StatNoParticipants
    \/ StatSortAndWrite

\* Both programs.
SpecMains ==
    (InitScraperMain \/ InitStatMain) /\ [][NextScraperMain \/ NextStatMain]_vars


(***************************************************************************)
(* The output of the two programs                                          *)
(***************************************************************************)
\* toSeconds(Tid) of a record of the output; None when Tid is absent or
\* incomparable.
TidSeconds(cls, p) ==
    IF Present(p.Tid) THEN time_to_seconds(cls, p.Tid) ELSE NoneVal

\* Non-decreasing toSeconds(Tid), every record without one after all the others.
AscendingTimesLast(cls, list) ==
    \A i, j \in 1..Len(list) :
        (i < j /\ TidSeconds(cls, list[j]) # NoneVal)
            => /\ TidSeconds(cls, list[i]) # NoneVal
               /\ TidSeconds(cls, list[i]).v <= TidSeconds(cls, list[j]).v

\* The records of one Gruppe, in the order of the list.
OfGruppe(list, g) == SelectSeq(list, LAMBDA p : p.Gruppe = g)

\* The records of one Gruppe are adjacent in the list.
GroupedByGruppe(list) ==
    \A i, j, k \in 1..Len(list) :
        (i < j /\ j < k /\ list[i].Gruppe = list[k].Gruppe)
            => list[j].Gruppe = list[i].Gruppe

\* C16: whatever the order in which the tasks complete, the output is grouped
\* by category (StoltzenScraper: every record printed under the category of its
\* table row; StoltzenStatScraper: the rows of one Gruppe are adjacent) and
\* inside a category toSeconds(Tid) never decreases, the records whose Tid is
\* absent or incomparable coming after all the others.
C16_GroupedAndSorted ==
    /\ main_pc = "scraper.done" =>
           \A c \in {Mann, Dame, Pluss} :
               /\ \A k \in 1..Len(collected[c]) :
                      current_category(results_table[collected[c][k].Navn].class) = c
               /\ AscendingTimesLast("scraper", collected[c])
    /\ main_pc = "stat.done" =>
           /\ GroupedByGruppe(collected)
           /\ \A g \in {Mann, Dame, Pluss} :
                  AscendingTimesLast("stat", OfGruppe(collected, g))

\* A finished run of StoltzenScraper's main whose three men were handed out
\* slowest first and with the man without a time in the middle, and are
\* printed fastest first with that man last.
C16_Witness ==
    /\ main_pc = "scraper.done"
    /\ Len(collected[Mann]) = 3
    /\ TidSeconds("scraper", collected[Mann][3]) = NoneVal
    /\ TidSeconds("scraper", collected[Mann][1]) # NoneVal
    /\ TidSeconds("scraper", collected[Mann][2]) # NoneVal
    /\ TidSeconds("scraper", collected[Mann][1]).v
           < TidSeconds("scraper", collected[Mann][2]).v
    /\ collected[Mann][1].Navn = 3
    /\ collected[Mann][2].Navn = 1
    /\ collected[Mann][3].Navn = 2

\* How often the row of that number is printed under the category c.
Occurrences(c, row) ==
    Cardinality({k \in 1..Len(collected[c]) : collected[c][k].Navn = row})

ExactlyOnce ==
    \A row \in 1..Len(results_table) :
        \A c \in {Mann, Dame, Pluss} :
            Occurrences(c, row) =
                IF current_category(results_table[row].class) = c THEN 1 ELSE 0

\* C19: whatever the interleaving and whether each profile fetch succeeds,
\* fails or raises, main of StoltzenScraper comes to an end, and when it has
\* printed its output every row parsed from the results table is in it exactly
\* once, under the category parse_results_table gave it.
C19_TerminatesWithEveryoneOnce ==
    /\ <>(main_pc \in {"scraper.done", "scraper.failed"})
    /\ [](main_pc = "scraper.done" => ExactlyOnce)

\* A finished run with three rows: one profile was fetched, one fetch failed
\* and one task raised, and the three records are in the output.
C19_Witness ==
    /\ main_pc = "scraper.done"
    /\ Len(futures) = 3
    /\ \E i, j, k \in 1..3 :
          /\ futures[i].outcome = Raised
          /\ futures[j].web.answer = "failed" /\ futures[j].outcome # Raised
          /\ futures[k].web.answer = "page" /\ futures[k].outcome # Raised
          /\ futures[k].outcome.BesteTidligere # NoneVal
    /\ Len(collected[Mann]) + Len(collected[Dame]) + Len(collected[Pluss]) = 3

\* processed_results when as_completed hands the futures out in the order in
\* which they were submitted, from the k-th on.
RECURSIVE CollectFrom(_, _)
CollectFrom(processed_results, k) ==
    IF k > Len(futures) THEN processed_results
    ELSE CHOOSE last \in
             {CollectFrom(next, k + 1) :
                  next \in {Collect(processed_results, futures[k])}} :
             TRUE

\* What the run prints when the tasks complete in the order of submission.
InSubmissionOrder ==
    LET processed_results == CollectFrom([c \in {Mann, Dame, Pluss} |-> <<>>], 1)
    IN  [c \in {Mann, Dame, Pluss} |-> SortByKey("scraper", processed_results[c])]

\* C20 as stated: the output is the same for every completion order, ties
\* included.
C20_SameOutputForEveryOrder ==
    main_pc = "scraper.done" => collected = InSubmissionOrder

\* Two records of a category tie: equal toSeconds(Tid), or both without one.
Tie(p, q) == TidSeconds("scraper", p) = TidSeconds("scraper", q)

\* C20: for fixed rows and fixed page contents the output is the same for
\* every completion order except for the order among the records of a
\* category that tie: every position holds a record of the same
\* toSeconds(Tid) as in the run that completes in submission order, and a
\* record that ties with no other is at the same position.
C20_SameOutputUpToTies ==
    main_pc = "scraper.done" =>
        \A c \in {Mann, Dame, Pluss} :
            /\ Len(collected[c]) = Len(InSubmissionOrder[c])
            /\ \A k \in 1..Len(collected[c]) :
                  /\ Tie(collected[c][k], InSubmissionOrder[c][k])
                  /\ (\A m \in 1..Len(collected[c]) :
                          m # k => ~Tie(collected[c][m], collected[c][k]))
                         => collected[c][k] = InSubmissionOrder[c][k]

\* A finished run that prints two men with the same time in the reverse of
\* the order of submission, the faster third man before both.
C20_Witness ==
    /\ main_pc = "scraper.done"
    /\ Len(collected[Mann]) = 3
    /\ collected[Mann][1].Navn = 3
    /\ collected[Mann][2].Navn = 2
    /\ collected[Mann][3].Navn = 1
    /\ TidSeconds("scraper", collected[Mann][2]) # NoneVal
    /\ Tie(collected[Mann][2], collected[Mann][3])
    /\ collected # InSubmissionOrder


\* The record has a ProfileLink key (pop leaves none, whatever its value was).
HasProfileLink(p) == p.ProfileLink # Unset

\* C21: no record of the JSON output of StoltzenScraper's main has a
\* ProfileLink key, whichever way fetch_participant_profile was left (no
\* profile link, page not fetched, profile parsed, parsing raised) and also
\* when the task raised and main's except branch appended the record.
C21_NoProfileLinkInOutput ==
    main_pc = "scraper.done" =>
        \A c \in {Mann, Dame, Pluss} :
            \A k \in 1..Len(collected[c]) : ~HasProfileLink(collected[c][k])


(***************************************************************************)
(* C22                                                                     *)
(***************************************************************************)
\* A record one of the two scrapers has returned.
Emitted ==
    /\ scan.pc \in {"done", "returned"}
    /\ participant # Unset /\ participant # NoneVal

StartsWith(x, ch) == x # NoneVal /\ x.t = "str" /\ x.v # <<>> /\ x.v[1] = ch

\* C22: in every record either scraper returns, NyBestetid true together with
\* a BesteTidligere means a Differanse that starts with '-', and a Differanse
\* of "0:00" or one that starts with '+' means NyBestetid false.
C22_FlagAgreesWithDelta ==
    Emitted =>
        /\ (participant.NyBestetid = BoolVal(TRUE) /\ Present(participant.BesteTidligere))
               => StartsWith(participant.Differanse, "-")
        /\ (\/ participant.Differanse = StrVal(<<"0", ":", "0", "0">>)
            \/ StartsWith(participant.Differanse, "+"))
               => participant.NyBestetid = BoolVal(FALSE)

\* A record StoltzenStatScraper returns for a page whose personal_best cell is
\* "07.54 (2016)" and whose table pairs 2024 with 7.30: a new best, 24
\* seconds faster.
C22_Witness ==
    /\ Emitted
    /\ scan.pc = "done"
    /\ participant.Tid = StrVal(<<"7", ":", "3", "0">>)
    /\ participant.BesteTidligere = StrVal(<<"0", "7", ":", "5", "4">>)
    /\ participant.NyBestetid = BoolVal(TRUE)
    /\ participant.Differanse = StrVal(<<"-", "0", ":", "2", "4">>)

(***************************************************************************)
(* C23                                                                     *)
(***************************************************************************)
Zero == StrVal(<<"0", ":", "0", "0">>)

\* The sign character and the minutes:seconds after it.
SignOf(delta) == delta.v[1]
Magnitude(delta) == Tail(delta.v)

\* delta(b, a) for the call delta(a, b) that was made.
Reversed(cls) == calculate_time_difference(cls, best_previous, current_time).ret

\* C23: for comparable a and b, delta(a, b) and delta(b, a) are both "0:00"
\* when toSeconds(a) = toSeconds(b), and otherwise have the same
\* minutes:seconds after opposite sign characters; delta(a, a) is "0:00".
C23_Antisymmetric ==
    \A cls \in {"stat", "scraper"} :
        (/\ DifferenceCall(cls)
         /\ Comparable(cls, current_time) /\ Comparable(cls, best_previous))
            => /\ IF time_to_seconds(cls, current_time)
                        = time_to_seconds(cls, best_previous)
                   THEN call.ret = Zero /\ Reversed(cls) = Zero
                   ELSE /\ call.ret # NoneVal /\ Reversed(cls) # NoneVal
                        /\ Magnitude(call.ret) = Magnitude(Reversed(cls))
                        /\ {SignOf(call.ret), SignOf(Reversed(cls))} = {"+", "-"}
               /\ calculate_time_difference(cls, current_time, current_time).ret = Zero
               /\ calculate_time_difference(cls, best_previous, best_previous).ret = Zero

\* delta("7:30", "8:11") = "-0:41" was computed, and delta("8:11", "7:30")
\* is "+0:41".
C23_Witness ==
    /\ DifferenceCall("scraper")
    /\ current_time = StrVal(<<"7", ":", "3", "0">>)
    /\ best_previous = StrVal(<<"8", ":", "1", "1">>)
    /\ call.ret = StrVal(<<"-", "0", ":", "4", "1">>)
    /\ Reversed("scraper") = StrVal(<<"+", "0", ":", "4", "1">>)

====
